---- MODULE Spec2Model ----
(***************************************************************************)
(* ObesiTrack: the feature-encoding and prediction pipeline                *)
(* (app/ml/predictor.py), the legacy wrapper (app/ml/model_trainer.py)     *)
(* and the prediction router (app/routers/prediction.py).                  *)
(*                                                                         *)
(* Python strings are sequences of one-character strings, so that          *)
(* str.lower, str.upper and str.capitalize are computed, not assumed.      *)
(* Python values are records [t,n,d,s]: t is "num", "str" or "none".       *)
(* A float is the exact rational n/d.                                      *)
(***************************************************************************)
EXTENDS Integers, Sequences, FiniteSets, TLC

VARIABLES
    predictor,      \* the ObesityPredictor object of app/ml/predictor.py
    features,       \* the caller's input mapping of the last call
    outcome,        \* what the last call returned or raised
    lastOp,         \* which operation acted last
    probe,          \* a remembered earlier predict call (input and outcome)
    routerModel,    \* module-level `model` of app/routers/prediction.py
    request,        \* the last request handled by the router
    response,       \* the router's answer to it
    predictions,    \* rows of the predictions table
    files,          \* the artifact files on disk, per candidate location
    users,          \* rows of the users table, by id; a deleted row leaves a gap
    issued,         \* the access tokens login has issued, and to whom
    inflight,       \* requests that passed a step and wait for their next one
    started         \* how many requests have been started

vars == <<predictor, features, outcome, lastOp, probe, routerModel, request,
          response, predictions, files,
          users, issued, inflight, started>>

accountVars == <<users, issued, inflight, started>>

\* no account is looked at
NoAccounts ==
    /\ users = <<>>
    /\ issued = {}
    /\ inflight = {}
    /\ started = 0

-----------------------------------------------------------------------------
(* Characters and the str methods the code calls *)

LowerChars == <<"a","b","c","d","e","f","g","h","i","j","k","l","m",
                "n","o","p","q","r","s","t","u","v","w","x","y","z">>

UpperChars == <<"A","B","C","D","E","F","G","H","I","J","K","L","M",
                "N","O","P","Q","R","S","T","U","V","W","X","Y","Z">>

\* code-point order of the characters that occur (sorting of column names)
AsciiOrder == <<"0","1","2","3","4","5","6","7","8","9">> \o UpperChars
                \o <<"_">> \o LowerChars

IndexIn(c, chars) == CHOOSE i \in 1..Len(chars) : chars[i] = c

Chars == {AsciiOrder[i] : i \in 1..Len(AsciiOrder)}

IsUpperChar(c) == \E i \in 1..Len(UpperChars) : UpperChars[i] = c

IsLowerChar(c) == \E i \in 1..Len(LowerChars) : LowerChars[i] = c

\* the case mappings of single characters, tabulated once
LowerOf ==
    [c \in Chars |-> IF IsUpperChar(c) THEN LowerChars[IndexIn(c, UpperChars)] ELSE c]

UpperOf ==
    [c \in Chars |-> IF IsLowerChar(c) THEN UpperChars[IndexIn(c, LowerChars)] ELSE c]

char_lower(c) == LowerOf[c]

char_upper(c) == UpperOf[c]

str_lower(s) == [i \in 1..Len(s) |-> char_lower(s[i])]

str_upper(s) == [i \in 1..Len(s) |-> char_upper(s[i])]

str_capitalize(s) ==
    [i \in 1..Len(s) |-> IF i = 1 THEN char_upper(s[i]) ELSE char_lower(s[i])]

\* s < t in Python's string order
StrLess(s, t) ==
    \/ \E i \in 1..Len(s) :
          /\ i <= Len(t)
          /\ \A j \in 1..(i - 1) : s[j] = t[j]
          /\ IndexIn(s[i], AsciiOrder) < IndexIn(t[i], AsciiOrder)
    \/ /\ Len(s) < Len(t)
       /\ \A j \in 1..Len(s) : s[j] = t[j]

\* sub in s
Contains(sub, s) ==
    \E i \in 1..(Len(s) - Len(sub) + 1) : SubSeq(s, i, i + Len(sub) - 1) = sub

Min(S) == CHOOSE x \in S : \A y \in S : x <= y

Range(q) == {q[i] : i \in 1..Len(q)}

-----------------------------------------------------------------------------
(* Python values *)

None == [t |-> "none", n |-> 0, d |-> 1, s |-> <<>>]

\* the float n/d
Ratio(n, d) == [t |-> "num", n |-> n, d |-> d, s |-> <<>>]

Num(n) == Ratio(n, 1)

Str(s) == [t |-> "str", n |-> 0, d |-> 1, s |-> s]

\* a < b for floats with positive denominators
NumLess(a, b) == a.n * b.d < b.n * a.d

S_Age == <<"A","g","e">>
S_Height == <<"H","e","i","g","h","t">>
S_Weight == <<"W","e","i","g","h","t">>
S_FCVC == <<"F","C","V","C">>
S_NCP == <<"N","C","P">>
S_CH2O == <<"C","H","2","O">>
S_FAF == <<"F","A","F">>
S_TUE == <<"T","U","E">>
S_Gender == <<"G","e","n","d","e","r">>
S_family == <<"f","a","m","i","l","y","_","h","i","s","t","o","r","y","_",
              "w","i","t","h","_","o","v","e","r","w","e","i","g","h","t">>
S_FAVC == <<"F","A","V","C">>
S_CAEC == <<"C","A","E","C">>
S_SMOKE == <<"S","M","O","K","E">>
S_SCC == <<"S","C","C">>
S_CALC == <<"C","A","L","C">>
S_MTRANS == <<"M","T","R","A","N","S">>

S_Female == <<"F","e","m","a","l","e">>
S_Male == <<"M","a","l","e">>
S_no == <<"n","o">>
S_yes == <<"y","e","s">>
S_Always == <<"A","l","w","a","y","s">>
S_Frequently == <<"F","r","e","q","u","e","n","t","l","y">>
S_Sometimes == <<"S","o","m","e","t","i","m","e","s">>
S_Automobile == <<"A","u","t","o","m","o","b","i","l","e">>
S_Bike == <<"B","i","k","e">>
S_Motorbike == <<"M","o","t","o","r","b","i","k","e">>
S_Public_Transportation == <<"P","u","b","l","i","c","_","T","r","a","n","s",
                             "p","o","r","t","a","t","i","o","n">>
S_Walking == <<"W","a","l","k","i","n","g">>

-----------------------------------------------------------------------------
(* ObesityPredictor.__init__: the fixed feature lists and vocabulary *)

original_numerical_features == <<S_Age, S_Height, S_Weight>>

additional_numerical_features == <<S_FCVC, S_NCP, S_CH2O, S_FAF, S_TUE>>

numerical_features == original_numerical_features \o additional_numerical_features

categorical_features ==
    <<S_Gender, S_family, S_FAVC, S_CAEC, S_SMOKE, S_SCC, S_CALC, S_MTRANS>>

categorical_values ==
    [f \in {categorical_features[i] : i \in 1..Len(categorical_features)} |->
        CASE f = S_Gender -> <<S_Female, S_Male>>
          [] f = S_family -> <<S_no, S_yes>>
          [] f = S_FAVC   -> <<S_no, S_yes>>
          [] f = S_CAEC   -> <<S_Always, S_Frequently, S_Sometimes, S_no>>
          [] f = S_SMOKE  -> <<S_no, S_yes>>
          [] f = S_SCC    -> <<S_no, S_yes>>
          [] f = S_CALC   -> <<S_Always, S_Frequently, S_Sometimes, S_no>>
          [] f = S_MTRANS -> <<S_Automobile, S_Bike, S_Motorbike,
                               S_Public_Transportation, S_Walking>>]

-----------------------------------------------------------------------------
(* preprocess_features.get_value: the first key variant holding a value *)

key_variants(name) ==
    <<name, str_lower(name), str_upper(name), str_capitalize(name)>>

\* the variants of the sixteen feature names, tabulated once
feature_key_variants ==
    [name \in Range(original_numerical_features)
               \cup Range(additional_numerical_features)
               \cup Range(categorical_features) |-> key_variants(name)]

\* get_value falling back on the mapping of the call before
get_value_remembered(feats, name) ==
    LET keys == feature_key_variants[name]
        hits == {i \in 1..Len(keys) :
                    keys[i] \in DOMAIN feats /\ feats[keys[i]] # None}
        old  == {i \in 1..Len(keys) :
                    keys[i] \in DOMAIN features /\ features[keys[i]] # None}
    IN  IF hits # {} THEN feats[keys[Min(hits)]]
        ELSE IF old # {} THEN features[keys[Min(old)]]
        ELSE None

get_value(feats, name) ==
    LET keys == feature_key_variants[name]
        hits == {i \in 1..Len(keys) :
                    keys[i] \in DOMAIN feats /\ feats[keys[i]] # None}
    IN  IF hits = {} THEN None ELSE feats[keys[Min(hits)]]

-----------------------------------------------------------------------------
(* Exceptions and the results of the helper steps *)

\* an exception message: its text up to the value it names, that value, and
\* the prefix an except clause puts before it
Msg(kind, arg) == [prefix |-> "", kind |-> kind, arg |-> arg]

NoMsg == Msg("", <<>>)

DigitChars == <<"0","1","2","3","4","5","6","7","8","9">>

IsDigitChar(c) == \E i \in 1..Len(DigitChars) : DigitChars[i] = c

RECURSIVE ParseDigits(_)
ParseDigits(s) ==
    IF s = <<>> THEN 0
    ELSE 10 * ParseDigits(SubSeq(s, 1, Len(s) - 1))
            + (IndexIn(s[Len(s)], DigitChars) - 1)

\* float(value): a number is kept, a string of digits is parsed, any other
\* string raises ValueError
float_of(v) ==
    IF v.t = "num" THEN [exc |-> "none", val |-> v, msg |-> NoMsg]
    ELSE IF v.t = "str" /\ v.s # <<>> /\ \A i \in 1..Len(v.s) : IsDigitChar(v.s[i])
         THEN [exc |-> "none", val |-> Num(ParseDigits(v.s)), msg |-> NoMsg]
    ELSE IF v.t = "str"
         THEN [exc |-> "ValueError", val |-> None,
               msg |-> Msg("could not convert string to float", v.s)]
    ELSE [exc |-> "TypeError", val |-> None,
          msg |-> Msg("float() argument must be a string or a real number", <<>>)]

\* the first element of a sequence of step results that raised, if any
FirstRaised(steps) ==
    LET bad == {i \in 1..Len(steps) : steps[i].exc # "none"}
    IN  IF bad = {} THEN 0 ELSE Min(bad)

-----------------------------------------------------------------------------
(* The fitted artifacts: scaler (feature_encoder), label decoder, classifier *)

\* StandardScaler fitted on Age, Height, Weight: per-field mean and scale
StandardScaler == [mean |-> <<24, 168, 86>>, scale |-> <<6, 9, 26>>]

scaler_transform(scaler, row) ==
    [i \in 1..Len(row) |->
        Ratio(row[i].n - scaler.mean[i] * row[i].d, scaler.scale[i] * row[i].d)]

-----------------------------------------------------------------------------
(* ObesityPredictor.preprocess_features *)

\* the numerical loops with a missing field silently replaced by a default
numerical_step_default(feats, feature) ==
    LET value == get_value(feats, feature)
    IN  IF value = None
        THEN [exc |-> "none", val |-> Num(1), msg |-> NoMsg]
        ELSE float_of(value)

\* the numerical loops: look the field up, fail when missing, cast to float
numerical_step(feats, feature) ==
    LET value == get_value(feats, feature)
    IN  IF value = None
        THEN [exc |-> "ValueError", val |-> None,
              msg |-> Msg("Missing required numerical feature", feature)]
        ELSE float_of(value)

\* the categorical loop without the Gender normalisation
categorical_step_raw(feats, feature) ==
    LET value == get_value(feats, feature)
    IN  IF value = None
        THEN [exc |-> "ValueError", val |-> None,
              msg |-> Msg("Missing required categorical feature", feature)]
        ELSE [exc |-> "none", val |-> value, msg |-> NoMsg]

\* the categorical loop: look the field up, fail when missing, capitalise Gender
categorical_step(feats, feature) ==
    LET value == get_value(feats, feature)
    IN  IF value = None
        THEN [exc |-> "ValueError", val |-> None,
              msg |-> Msg("Missing required categorical feature", feature)]
        ELSE IF str_lower(feature) = str_lower(S_Gender) /\ value.t = "str"
        THEN [exc |-> "none", val |-> Str(str_capitalize(value.s)), msg |-> NoMsg]
        ELSE [exc |-> "none", val |-> value, msg |-> NoMsg]

\* sorted(set(q)): the order in which pandas.get_dummies lays out categories
SortStrs(q) ==
    LET elems == Range(q)
    IN  [i \in 1..Cardinality(elems) |->
            CHOOSE x \in elems :
                Cardinality({y \in elems : StrLess(y, x)}) = i - 1]

\* pandas.get_dummies(frame, prefix=feature) of a one-column frame: one
\* column "<feature>_<category>" per distinct string, in sorted order; a
\* column of numbers is passed through under its own name
dummy_column(feature, category) == feature \o <<"_">> \o category

get_dummies_columns(feature, column) ==
    IF \A i \in 1..Len(column) : column[i].t = "str"
    THEN LET cats == SortStrs([i \in 1..Len(column) |-> column[i].s])
         IN  [i \in 1..Len(cats) |-> dummy_column(feature, cats[i])]
    ELSE <<feature>>

\* temp_encoded.columns of each categorical feature
temp_encoded_columns ==
    [f \in Range(categorical_features) |->
        get_dummies_columns(f,
            [i \in 1..Len(categorical_values[f]) |-> Str(categorical_values[f][i])])]

\* get_dummies of the request's value alone, without the reindex
encode_categorical_seen(feature, value) ==
    LET given == get_dummies_columns(feature, <<value>>)
    IN  [i \in 1..Len(given) |-> [name |-> given[i], val |-> Num(1)]]

\* input_encoded.reindex(columns=temp_encoded.columns, fill_value=0)
encode_categorical(feature, value) ==
    LET cols  == temp_encoded_columns[feature]
        given == get_dummies_columns(feature, <<value>>)
    IN  [i \in 1..Len(cols) |->
            [name |-> cols[i],
             val  |-> IF cols[i] \in Range(given) THEN Num(1) ELSE Num(0)]]

RECURSIVE ConcatAll(_)
ConcatAll(blocks) ==
    IF blocks = <<>> THEN <<>> ELSE Head(blocks) \o ConcatAll(Tail(blocks))

\* weight / (height_m ** 2) with height_m = height / 100.0
bmi_of(height, weight) ==
    Ratio(weight.n * height.d * height.d * 10000, weight.d * height.n * height.n)

\* original_height, original_weight: read again from the input mapping, not
\* taken from the scaled row
original_values_scaled(feats, scaled_row) ==
    [height |-> scaled_row[2], weight |-> scaled_row[3]]

original_values(feats, scaled_row) ==
    [height |-> get_value(feats, S_Height), weight |-> get_value(feats, S_Weight)]

NoFrame == [exc |-> "none", msg |-> NoMsg, df |-> <<>>, bmi |-> None]

\* the frame and the BMI, from the outcomes of the three loops
combine_features(self, feats, scaled_steps, add_steps, cat_steps) ==
    LET steps        == scaled_steps \o add_steps \o cat_steps
        bad          == FirstRaised(steps)
        raw_row      == [i \in 1..Len(scaled_steps) |-> scaled_steps[i].val]
        scaled_row   == IF self.feature_encoder # None
                        THEN scaler_transform(self.feature_encoder, raw_row)
                        ELSE raw_row
        df_num_scaled == [i \in 1..Len(scaled_row) |->
                            [name |-> original_numerical_features[i],
                             val  |-> scaled_row[i]]]
        df_num_additional == [i \in 1..Len(add_steps) |->
                            [name |-> additional_numerical_features[i],
                             val  |-> add_steps[i].val]]
        df_cat_encoded == ConcatAll([i \in 1..Len(cat_steps) |->
                            encode_categorical(categorical_features[i],
                                               cat_steps[i].val)])
        original == original_values(feats, scaled_row)
        height == float_of(original.height).val
        weight == float_of(original.weight).val
    IN  IF bad # 0
        THEN [NoFrame EXCEPT !.exc = steps[bad].exc, !.msg = steps[bad].msg]
        ELSE IF height.n = 0
        THEN [NoFrame EXCEPT !.exc = "ZeroDivisionError",
                             !.msg = Msg("float division by zero", <<>>)]
        ELSE [NoFrame EXCEPT
                !.df  = df_num_scaled \o df_num_additional \o df_cat_encoded,
                !.bmi = bmi_of(height, weight)]

preprocess_features(self, feats) ==
    combine_features(self, feats,
        [i \in 1..Len(original_numerical_features) |->
            numerical_step(feats, original_numerical_features[i])],
        [i \in 1..Len(additional_numerical_features) |->
            numerical_step(feats, additional_numerical_features[i])],
        [i \in 1..Len(categorical_features) |->
            categorical_step(feats, categorical_features[i])])

-----------------------------------------------------------------------------
(* The classifier artifact and the label decoder *)

S_Insufficient_Weight == <<"I","n","s","u","f","f","i","c","i","e","n","t","_",
                           "W","e","i","g","h","t">>
S_Normal_Weight == <<"N","o","r","m","a","l","_","W","e","i","g","h","t">>
S_Overweight_Level_I == <<"O","v","e","r","w","e","i","g","h","t","_",
                          "L","e","v","e","l","_","I">>
S_Overweight_Level_II == S_Overweight_Level_I \o <<"I">>
S_Obesity_Type_I == <<"O","b","e","s","i","t","y","_","T","y","p","e","_","I">>
S_Obesity_Type_II == S_Obesity_Type_I \o <<"I">>
S_Obesity_Type_III == S_Obesity_Type_II \o <<"I">>

\* LabelEncoder fitted on the target column: classes_ is the sorted labels
LabelEncoder ==
    [classes_ |-> SortStrs(<<S_Insufficient_Weight, S_Normal_Weight,
                             S_Overweight_Level_I, S_Overweight_Level_II,
                             S_Obesity_Type_I, S_Obesity_Type_II,
                             S_Obesity_Type_III>>)]

\* the width the classifier was fitted on, as predict checks it
ExpectedFeatures == 31

\* the stand-in of the unit tests
DummyModel == [cls |-> "DummyModel", has_predict_proba |-> TRUE]

\* the fitted classifier saved by scripts/train_model.py
RandomForestClassifier ==
    [cls |-> "RandomForestClassifier", has_predict_proba |-> TRUE]

RECURSIVE WeightedSum(_, _)
WeightedSum(X, i) ==
    IF i = 0 THEN 0 ELSE WeightedSum(X, i - 1) + i * (X[i].val.n + X[i].val.d)

\* a fitted forest is a fixed function of the row it is given
forest_vote(X) == WeightedSum(X, Len(X))

\* a classifier of a kind that has no predict_proba (hasattr is false)
ClassifierWithoutProba ==
    [cls |-> "ClassifierWithoutProba", has_predict_proba |-> FALSE]

\* an artifact whose method raises exc when it is called
BrokenClassifier(method, exc) ==
    [cls |-> "BrokenClassifier", has_predict_proba |-> TRUE,
     method |-> method, exc |-> exc]

IsBroken(model, method) ==
    model.cls = "BrokenClassifier" /\ model.method = method

\* model.predict(X)[0]: the class token, or the exception the artifact raises
\* (a fitted forest rejects a row that is not 31 numbers)
model_predict(model, X) ==
    IF IsBroken(model, "predict") THEN [exc |-> model.exc, val |-> 0]
    ELSE IF model.cls # "RandomForestClassifier" THEN [exc |-> "none", val |-> 1]
    ELSE IF Len(X) # ExpectedFeatures \/ \E i \in 1..Len(X) : X[i].val.t # "num"
    THEN [exc |-> "ValueError", val |-> 0]
    ELSE [exc |-> "none", val |-> forest_vote(X) % Len(LabelEncoder.classes_)]

\* float(np.max(model.predict_proba(X)[0]))
model_predict_proba_max(model, X) ==
    IF model.cls # "RandomForestClassifier" THEN Ratio(8, 10)
    ELSE Ratio(4 + (forest_vote(X) % 7), 10)

\* the probability step of predict: None when the classifier has no
\* predict_proba, or the exception predict_proba raises
model_predict_proba(model, X) ==
    IF ~model.has_predict_proba THEN [exc |-> "none", val |-> None]
    ELSE IF IsBroken(model, "predict_proba") THEN [exc |-> model.exc, val |-> None]
    ELSE [exc |-> "none", val |-> model_predict_proba_max(model, X)]

\* a decoder fitted on fewer classes than the classifier answers with
ShortLabelEncoder == [classes_ |-> <<S_Normal_Weight>>]

\* label_encoder.inverse_transform([y])[0]
inverse_transform(encoder, y) ==
    IF y + 1 \in 1..Len(encoder.classes_)
    THEN [exc |-> "none", val |-> encoder.classes_[y + 1]]
    ELSE [exc |-> "ValueError", val |-> <<>>]

\* str of the whole answer of model.predict, not of its first element
str_of_array(y) == <<"[", DigitChars[y + 1], "]">>

\* str(y_pred) of a class index
str_of_int(y) == <<DigitChars[y + 1]>>

-----------------------------------------------------------------------------
(* ObesityPredictor._generate_recommendations *)

S_favc == <<"f","a","v","c">>
S_ch2o == <<"c","h","2","o">>
S_faf == <<"f","a","f">>
S_caec == <<"c","a","e","c">>
S_always == <<"a","l","w","a","y","s">>

\* features.get(key, default)
dict_get(feats, key, default) ==
    IF key \in DOMAIN feats THEN feats[key] ELSE default

\* value.lower() == word; a value that is not a string has no lower()
lower_equals(value, word) ==
    IF value.t = "str"
    THEN [exc |-> "none", val |-> (str_lower(value.s) = word), msg |-> NoMsg]
    ELSE [exc |-> "AttributeError", val |-> FALSE,
          msg |-> Msg("object has no attribute 'lower'", <<>>)]

\* float(value) < bound
float_below(value, bound) ==
    LET f == float_of(value)
    IN  IF f.exc = "none"
        THEN [exc |-> "none", val |-> NumLess(f.val, bound), msg |-> NoMsg]
        ELSE [exc |-> f.exc, val |-> FALSE, msg |-> f.msg]

bmi_message(bmi) ==
    IF NumLess(bmi, Ratio(185, 10))
    THEN "Your BMI indicates you are underweight. Consider consulting a nutritionist for a healthy weight gain plan."
    ELSE IF ~NumLess(bmi, Ratio(185, 10)) /\ NumLess(bmi, Num(25))
    THEN "Your BMI is in the healthy range. Maintain your current healthy lifestyle!"
    ELSE IF ~NumLess(bmi, Num(25)) /\ NumLess(bmi, Num(30))
    THEN "Your BMI indicates you are overweight. Focus on balanced nutrition and regular exercise."
    ELSE "Your BMI indicates obesity. We recommend consulting a healthcare professional."

\* the texts of the four lifestyle rules, in the order they are tested
lifestyle_texts ==
    << "Consider reducing the frequency of high-calorie food consumption.",
       "Increase your daily water intake to at least 2 liters per day.",
       "Try to incorporate more physical activity into your daily routine.",
       "Try to reduce eating between meals or choose healthier snacks." >>

\* the list built from the BMI message and the outcomes of the four tests
recommendations_of(bmi, tests) ==
    LET bad == FirstRaised(tests)
        Matching[i \in 0..Len(tests)] ==
            IF i = 0 THEN <<>>
            ELSE IF tests[i].val THEN Append(Matching[i - 1], lifestyle_texts[i])
            ELSE Matching[i - 1]
    IN  IF bad # 0
        THEN [exc |-> tests[bad].exc, val |-> <<>>, msg |-> tests[bad].msg]
        ELSE [exc |-> "none", msg |-> NoMsg,
              val |-> <<bmi_message(bmi)>> \o Matching[Len(tests)]]

generate_recommendations(prediction_class, bmi, feats) ==
    recommendations_of(bmi,
        << lower_equals(dict_get(feats, S_favc, Str(<<>>)), S_yes),
           float_below(dict_get(feats, S_ch2o, Num(2)), Num(2)),
           float_below(dict_get(feats, S_faf, Num(0)), Num(1)),
           lower_equals(dict_get(feats, S_caec, Str(<<>>)), S_always) >>)

-----------------------------------------------------------------------------
(* ObesityPredictor.predict *)

\* the three-tier table of the legacy wrapper in place of risk_map
risk_map_three_tiers(prediction_class) ==
    IF prediction_class \in {S_Obesity_Type_I, S_Obesity_Type_II, S_Obesity_Type_III}
    THEN "High"
    ELSE IF prediction_class \in {S_Overweight_Level_I, S_Overweight_Level_II}
    THEN "Medium"
    ELSE "Low"

risk_map(prediction_class) ==
    CASE prediction_class = S_Normal_Weight       -> "Low"
      [] prediction_class = S_Overweight_Level_I  -> "Moderate"
      [] prediction_class = S_Overweight_Level_II -> "Moderate"
      [] prediction_class = S_Obesity_Type_I      -> "High"
      [] prediction_class = S_Obesity_Type_II     -> "Very High"
      [] prediction_class = S_Obesity_Type_III    -> "Extreme"
      [] OTHER                                    -> "Unknown"

\* round(x, 2), as a number of hundredths over 100
round2(x) ==
    LET q == (x.n * 100) \div x.d
        r == (x.n * 100) % x.d
    IN  Ratio(IF 2 * r > x.d \/ (2 * r = x.d /\ q % 2 = 1) THEN q + 1 ELSE q, 100)

NoResult == [prediction |-> <<>>, probability |-> None, bmi |-> None,
             risk_level |-> "", confidence |-> None, recommendations |-> <<>>]

\* what a call did: returned a value or raised; `steps` lists the pipeline
\* stages it entered, `width` the number of columns it generated
NoOutcome == [kind |-> "none", exc |-> "none", status_code |-> 0,
              detail |-> NoMsg, result |-> NoResult, df |-> <<>>, bmi |-> None,
              steps |-> <<>>]

Raise(exc, msg, steps) ==
    [NoOutcome EXCEPT !.kind = "raise", !.exc = exc, !.detail = msg, !.steps = steps]

\* the two except clauses of predict
HTTPExceptionFor(exc, msg, steps) ==
    IF exc = "ValueError"
    THEN [Raise("HTTPException", [msg EXCEPT !.prefix = "Invalid input"], steps)
            EXCEPT !.status_code = 400]
    ELSE [Raise("HTTPException", [NoMsg EXCEPT !.prefix = "Prediction failed"], steps)
            EXCEPT !.status_code = 500]

\* the try block of predict
\* the result dict, or the failure of the recommendations step
predict_result(pre, label, prob, recs) ==
    IF recs.exc # "none"
    THEN HTTPExceptionFor(recs.exc, recs.msg,
                          <<"preprocess", "classify", "decode", "recommend">>)
    ELSE [NoOutcome EXCEPT
            !.kind   = "return",
            !.steps  = <<"preprocess", "classify", "decode", "recommend">>,
            !.result = [prediction      |-> label,
                        probability     |-> prob,
                        bmi             |-> round2(pre.bmi),
                        risk_level      |-> risk_map(label),
                        confidence      |-> prob,
                        recommendations |-> recs.val]]

\* a default of the earlier wrapper, not of predict
probability_or_legacy_default(probability) ==
    IF probability # None THEN probability ELSE Ratio(85, 100)

\* probability if probability is not None else 1.0
probability_or_default(probability) ==
    IF probability # None THEN probability ELSE Num(1)

\* decoding, risk mapping and recommendations, after the classifier answered
predict_decoded(self, feats, pre, label, proba) ==
    IF label.exc # "none"
    THEN HTTPExceptionFor(label.exc, Msg("y contains previously unseen labels", <<>>),
                          <<"preprocess", "classify", "decode">>)
    ELSE predict_result(pre, label.val, probability_or_default(proba),
                        generate_recommendations(label.val, pre.bmi, feats))

\* label decoding, after predict and predict_proba answered
predict_scored(self, feats, pre, y, proba) ==
    IF proba.exc # "none"
    THEN HTTPExceptionFor(proba.exc, Msg("classifier", <<>>),
                          <<"preprocess", "classify">>)
    ELSE predict_decoded(self, feats, pre,
            IF self.label_encoder # None
            THEN inverse_transform(self.label_encoder, y.val)
            ELSE [exc |-> "none", val |-> str_of_int(y.val)],
            proba.val)

predict_classified(self, feats, pre, y) ==
    IF y.exc # "none"
    THEN HTTPExceptionFor(y.exc, Msg("classifier", <<>>),
                          <<"preprocess", "classify">>)
    ELSE predict_scored(self, feats, pre, y,
                        model_predict_proba(self.model, pre.df))

\* the body of the try block, from the preprocessed frame on
predict_preprocessed(self, feats, pre) ==
    IF pre.exc # "none"
    THEN HTTPExceptionFor(pre.exc, pre.msg, <<"preprocess">>)
    ELSE IF Len(pre.df) # ExpectedFeatures
    THEN HTTPExceptionFor("ValueError", Msg("Feature mismatch", <<>>),
                          <<"preprocess">>)
    ELSE predict_classified(self, feats, pre, model_predict(self.model, pre.df))

predict_loaded(self, feats) ==
    predict_preprocessed(self, feats, preprocess_features(self, feats))

\* predict with the model check made only after preprocessing
predict_late_check(self, feats) ==
    LET pre == preprocess_features(self, feats)
    IN  IF pre.exc # "none"
        THEN HTTPExceptionFor(pre.exc, pre.msg, <<"preprocess">>)
        ELSE IF self.model = None
        THEN Raise("RuntimeError", Msg("Model not loaded", <<>>), <<"preprocess">>)
        ELSE predict_loaded(self, feats)

predict(self, feats) ==
    IF self.model = None
    THEN Raise("RuntimeError", Msg("Model not loaded", <<>>), <<>>)
    ELSE predict_loaded(self, feats)

-----------------------------------------------------------------------------
(* The inputs the callers supply *)

S_male == <<"m","a","l","e">>
S_MALE == <<"M","A","L","E">>
S_Other == <<"O","t","h","e","r">>
S_InvalidValue == <<"I","n","v","a","l","i","d","V","a","l","u","e">>
S_abc == <<"a","b","c">>

Fields == Range(numerical_features) \cup Range(categorical_features)

\* the sample of the unit and integration tests
BaseValues ==
    [f \in Fields |->
        CASE f = S_Age    -> Num(30)
          [] f = S_Height -> Num(170)
          [] f = S_Weight -> Num(68)
          [] f = S_FCVC   -> Num(2)
          [] f = S_NCP    -> Num(3)
          [] f = S_CH2O   -> Num(2)
          [] f = S_FAF    -> Num(1)
          [] f = S_TUE    -> Num(1)
          [] f = S_Gender -> Str(S_Male)
          [] f = S_family -> Str(S_yes)
          [] f = S_FAVC   -> Str(S_yes)
          [] f = S_CAEC   -> Str(S_Sometimes)
          [] f = S_SMOKE  -> Str(S_no)
          [] f = S_SCC    -> Str(S_no)
          [] f = S_CALC   -> Str(S_Sometimes)
          [] f = S_MTRANS -> Str(S_Public_Transportation)]

\* how a field appears in an input: under the key of the input's style
\* ("plain"), not at all ("absent"), under a key get_value does not try
\* ("oddkey"), or as a null under its canonical key with the value under the
\* lower-case key ("shadow")
Plain(v) == [how |-> "plain", v |-> v]

Absent == [how |-> "absent", v |-> None]

OddKey(v) == [how |-> "oddkey", v |-> v]

Shadow(v) == [how |-> "shadow", v |-> v]

\* the ways a field departs from the sample
Alternatives ==
    [f \in Fields |->
        CASE f = S_Age    -> {Absent, Plain(Str(S_abc))}
          [] f = S_Height -> {Absent, Plain(Num(0))}
          [] f = S_Weight -> {Plain(Num(90)), Absent, Plain(None),
                              OddKey(Num(68)), Shadow(Num(68))}
          [] f = S_FCVC   -> {Absent}
          [] f = S_NCP    -> {}
          [] f = S_CH2O   -> {Plain(Num(1)), Absent}
          [] f = S_FAF    -> {Plain(Num(0))}
          [] f = S_TUE    -> {Absent}
          [] f = S_Gender -> {Plain(Str(S_male)), Plain(Str(S_MALE)),
                              Plain(Str(S_Female)), Plain(Str(S_Other))}
          [] f = S_family -> {Plain(Str(S_no))}
          [] f = S_FAVC   -> {Plain(Str(S_no))}
          [] f = S_CAEC   -> {Plain(Str(S_Always)), Plain(Str(S_Frequently)),
                              Plain(Str(S_no)), Plain(Str(S_InvalidValue))}
          [] f = S_SMOKE  -> {Plain(Str(S_yes))}
          [] f = S_SCC    -> {Plain(Str(S_yes))}
          [] f = S_CALC   -> {Plain(Str(S_no))}
          [] f = S_MTRANS -> {Plain(Str(S_Automobile)), Plain(Str(S_Walking)),
                              Absent}]

\* at most this many fields of one input depart from the sample
MaxDeviations == 2

KeyStyles == {"canonical", "lower", "upper", "capitalize"}

styled_key(style, name) ==
    CASE style = "canonical"  -> name
      [] style = "lower"      -> str_lower(name)
      [] style = "upper"      -> str_upper(name)
      [] style = "capitalize" -> str_capitalize(name)

\* a casing of the name that get_value never looks up
odd_key(name) ==
    [i \in 1..Len(name) |-> IF i = 1 THEN char_lower(name[i]) ELSE char_upper(name[i])]

\* the (key, value) entries one field contributes to the mapping
entries_of(style, name, option) ==
    CASE option.how = "plain"  -> {<<styled_key(style, name), option.v>>}
      [] option.how = "absent" -> {}
      [] option.how = "oddkey" -> {<<odd_key(name), option.v>>}
      [] option.how = "shadow" -> {<<name, None>>, <<str_lower(name), option.v>>}

MakeInput(style, options) ==
    LET E == UNION {entries_of(style, f, options[f]) : f \in Fields}
    IN  [k \in {e[1] : e \in E} |-> (CHOOSE e \in E : e[1] = k)[2]]

Deviations == {D \in SUBSET Fields : Cardinality(D) <= MaxDeviations}

OptionsFor(D) ==
    {[f \in Fields |-> IF f \in D THEN c[f] ELSE Plain(BaseValues[f])] :
        c \in {c \in [D -> UNION {Alternatives[f] : f \in D}] :
                  \A f \in D : c[f] \in Alternatives[f]}}

OptionSets == UNION {OptionsFor(D) : D \in Deviations}

Inputs == {MakeInput(style, o) : style \in KeyStyles, o \in OptionSets}

-----------------------------------------------------------------------------
(* The predictor object and the calls made on it *)

\* ObesityPredictor() after __init__, or with components injected as the unit
\* tests do
Predictors ==
    { [model |-> None, feature_encoder |-> None, label_encoder |-> None],
      [model |-> RandomForestClassifier, feature_encoder |-> StandardScaler,
       label_encoder |-> LabelEncoder],
      [model |-> RandomForestClassifier, feature_encoder |-> None,
       label_encoder |-> LabelEncoder],
      [model |-> RandomForestClassifier, feature_encoder |-> StandardScaler,
       label_encoder |-> None],
      [model |-> DummyModel, feature_encoder |-> None, label_encoder |-> None] }

NoProbe == [set |-> FALSE, features |-> <<>>, outcome |-> NoOutcome, other |-> FALSE]

NoRequest == [op |-> "none", input_data |-> <<>>, user |-> 0]

\* the predictor is constructed and a caller holds the mapping it will pass
\* no artifact file is looked at
NoFiles == <<>>

Init ==
    /\ NoAccounts
    /\ files = NoFiles
    /\ predictor \in Predictors
    /\ features \in Inputs
    /\ outcome = NoOutcome
    /\ lastOp = "init"
    /\ probe = NoProbe
    /\ routerModel = None
    /\ request = NoRequest
    /\ response = NoOutcome
    /\ predictions = <<>>

routerVars == <<routerModel, request, response, predictions>>

\* a direct call of preprocess_features, as the tests make it
Preprocess ==
    LET pre == preprocess_features(predictor, features)
    IN  /\ outcome' = IF pre.exc = "none"
                      THEN [NoOutcome EXCEPT !.kind = "return", !.df = pre.df,
                                             !.bmi = pre.bmi,
                                             !.steps = <<"preprocess">>]
                      ELSE Raise(pre.exc, pre.msg, <<"preprocess">>)
        /\ lastOp' = "preprocess_features"
        /\ UNCHANGED <<accountVars, files, predictor, features, probe, routerVars>>

\* a call of predict
Predict ==
    /\ outcome' = predict(predictor, features)
    /\ lastOp' = "predict"
    /\ UNCHANGED <<accountVars, files, predictor, features, probe, routerVars>>

Next == Preprocess \/ Predict

Spec == Init /\ [][Next]_vars

-----------------------------------------------------------------------------
(* Repeated calls of predict on one predictor *)

\* the mappings the repeated calls pass: the sample in two casings and a few
\* departures from it
\* predictors whose artifacts are of other kinds than the trained ones:
\* a classifier without predict_proba, methods that raise, a short decoder
ArtifactExceptions == {"ValueError", "RuntimeError", "KeyError"}

ArtifactModels ==
    {RandomForestClassifier, DummyModel, ClassifierWithoutProba}
    \cup {BrokenClassifier(method, exc) :
             method \in {"predict", "predict_proba"}, exc \in ArtifactExceptions}

ArtifactPredictors ==
    {[model |-> m, feature_encoder |-> StandardScaler, label_encoder |-> le] :
        m \in ArtifactModels, le \in {LabelEncoder, ShortLabelEncoder, None}}

CallInputs ==
    {MakeInput(style, o) : style \in {"canonical", "lower"},
                           o \in UNION {OptionsFor({f}) : f \in {S_Weight, S_CH2O}}}
    \cup {MakeInput("lower", o) : o \in OptionsFor({})}

CallsInit ==
    /\ NoAccounts
    /\ files = NoFiles
    /\ predictor \in Predictors
    /\ features = <<>>
    /\ outcome = NoOutcome
    /\ lastOp = "init"
    /\ probe = NoProbe
    /\ routerModel = None
    /\ request = NoRequest
    /\ response = NoOutcome
    /\ predictions = <<>>

\* a call of predict with any mapping; the observer notes a call that came
\* after the one it keeps and passed another mapping
PredictCall ==
    \E feats \in CallInputs :
        /\ features' = feats
        /\ outcome' = predict(predictor, feats)
        /\ lastOp' = "predict"
        /\ probe' = IF probe.set /\ feats # probe.features
                    THEN [probe EXCEPT !.other = TRUE]
                    ELSE probe
        /\ UNCHANGED <<accountVars, files, predictor, routerVars>>

\* a call of predict whose input and outcome the observer keeps
PredictRemembered ==
    /\ ~probe.set
    /\ \E feats \in CallInputs :
        /\ features' = feats
        /\ outcome' = predict(predictor, feats)
        /\ probe' = [set |-> TRUE, features |-> feats,
                     outcome |-> predict(predictor, feats), other |-> FALSE]
        /\ lastOp' = "predict"
        /\ UNCHANGED <<accountVars, files, predictor, routerVars>>

CallsNext == PredictCall \/ PredictRemembered

CallsSpec == CallsInit /\ [][CallsNext]_vars

\* predict called on predictors holding artifacts of every kind
ArtifactInit ==
    /\ NoAccounts
    /\ files = NoFiles
    /\ predictor \in ArtifactPredictors
    /\ features \in CallInputs
    /\ outcome = NoOutcome
    /\ lastOp = "init"
    /\ probe = NoProbe
    /\ routerModel = None
    /\ request = NoRequest
    /\ response = NoOutcome
    /\ predictions = <<>>

ArtifactNext == Predict

ArtifactSpec == ArtifactInit /\ [][ArtifactNext]_vars

-----------------------------------------------------------------------------
(* ObesityPredictor._load_model_assets *)

\* the candidate locations in the order they are tried
candidates == <<"app/ml", "repo root">>

FileKinds == <<"model", "feature", "label">>

\* what a file can be: not there, cut short or not a pickle (UnpicklingError,
\* EOFError), failing to open or to import (another Exception), or loadable
FileStates == {"missing", "truncated", "unreadable", "ok"}

Disks == [{candidates[i] : i \in 1..Len(candidates)} ->
            [{FileKinds[i] : i \in 1..Len(FileKinds)} -> FileStates]]

\* the object pickle.load gives for a loadable file
Loaded(desc, kind) == [at |-> desc, kind |-> kind]

\* ObesityPredictor() before _load_model_assets runs
FreshPredictor ==
    [model |-> None, feature_encoder |-> None, label_encoder |-> None]

\* path.exists()
exists(disk, desc, kind) == disk[desc][kind] # "missing"

\* open(path, "rb") and pickle.load(f)
pickle_load(disk, desc, kind) ==
    CASE disk[desc][kind] = "ok" ->
            [exc |-> "none", val |-> Loaded(desc, kind)]
      [] disk[desc][kind] = "truncated" ->
            [exc |-> "EOFError", val |-> None]
      [] OTHER ->
            [exc |-> "Exception", val |-> None]

\* the third load of the try block; returned tells whether the method returned
load_label(self, disk, desc, l) ==
    IF l.exc # "none" THEN [self |-> self, returned |-> FALSE]
    ELSE [self |-> [self EXCEPT !.label_encoder = l.val], returned |-> TRUE]

load_feature(self, disk, desc, f) ==
    IF f.exc # "none" THEN [self |-> self, returned |-> FALSE]
    ELSE load_label([self EXCEPT !.feature_encoder = f.val], disk, desc,
                    pickle_load(disk, desc, "label"))

load_model_file(self, disk, desc, m) ==
    IF m.exc # "none" THEN [self |-> self, returned |-> FALSE]
    ELSE load_feature([self EXCEPT !.model = m.val], disk, desc,
                      pickle_load(disk, desc, "feature"))

\* one turn of the loop over the candidates: the try block and its handlers,
\* which log and go on
load_candidate(self, disk, desc) ==
    IF /\ exists(disk, desc, "model")
       /\ exists(disk, desc, "feature")
       /\ exists(disk, desc, "label")
    THEN load_model_file(self, disk, desc, pickle_load(disk, desc, "model"))
    ELSE [self |-> self, returned |-> FALSE]

\* after the loop, leaving what the failed attempts assigned
load_exhausted_keep(self) == self

\* after the loop: no valid assets found, all three are reset
load_exhausted(self) ==
    [self EXCEPT !.model = None, !.feature_encoder = None, !.label_encoder = None]

RECURSIVE load_from(_, _, _)
load_after(attempt, disk, i) ==
    IF attempt.returned THEN attempt.self
    ELSE load_from(attempt.self, disk, i + 1)

load_from(self, disk, i) ==
    IF i > Len(candidates) THEN load_exhausted(self)
    ELSE load_after(load_candidate(self, disk, candidates[i]), disk, i)

\* self after _load_model_assets returned
load_model_assets(self, disk) == load_from(self, disk, 1)

LoadInit ==
    /\ NoAccounts
    /\ files \in Disks
    /\ predictor = FreshPredictor
    /\ features = <<>>
    /\ outcome = NoOutcome
    /\ lastOp = "init"
    /\ probe = NoProbe
    /\ routerModel = None
    /\ request = NoRequest
    /\ response = NoOutcome
    /\ predictions = <<>>

\* __init__ calls _load_model_assets
LoadModelAssets ==
    /\ lastOp = "init"
    /\ predictor' = load_model_assets(predictor, files)
    /\ lastOp' = "_load_model_assets"
    /\ UNCHANGED <<accountVars, files, features, outcome, probe, routerVars>>

LoadNext == LoadModelAssets

LoadSpec == LoadInit /\ [][LoadNext]_vars

-----------------------------------------------------------------------------
(* The legacy wrapper of app/ml/model_trainer.py *)

S_BMI == <<"B","M","I">>
S_Obesity == <<"O","b","e","s","i","t","y">>
S_Overweight == <<"O","v","e","r","w","e","i","g","h","t">>
S_Normal == <<"N","o","r","m","a","l">>

\* feature_defaults, in the order the dict lists them
feature_defaults ==
    << <<S_Gender, Str(S_Male)>>, <<S_Age, Num(25)>>, <<S_Height, Num(170)>>,
       <<S_Weight, Num(70)>>, <<S_family, Str(S_yes)>>, <<S_FAVC, Str(S_yes)>>,
       <<S_FCVC, Num(2)>>, <<S_NCP, Num(3)>>, <<S_CAEC, Str(S_Sometimes)>>,
       <<S_SMOKE, Str(S_no)>>, <<S_CH2O, Num(2)>>, <<S_SCC, Str(S_no)>>,
       <<S_FAF, Num(1)>>, <<S_TUE, Num(1)>>, <<S_CALC, Str(S_Sometimes)>>,
       <<S_MTRANS, Str(S_Public_Transportation)>> >>

\* weight / (height / 100) ** 2 on the values as the mapping holds them
legacy_bmi(height, weight) ==
    IF height.t # "num" \/ weight.t # "num"
    THEN [exc |-> "TypeError", val |-> None]
    ELSE IF height.n = 0
    THEN [exc |-> "ZeroDivisionError", val |-> None]
    ELSE [exc |-> "none", val |-> bmi_of(height, weight)]

\* the keys a mapping can have, and their place in sorted order
KnownKeys ==
    UNION {{styled_key(style, f) : style \in KeyStyles} \cup {odd_key(f)} : f \in Fields}

key_rank == [k \in KnownKeys |-> Cardinality({j \in KnownKeys : StrLess(j, k)})]

\* model_trainer.ObesityPredictor.preprocess_features: one column per key of
\* the mapping (laid out here in sorted key order), BMI when the mapping has
\* 'Weight' and 'Height', then a default column for every name not yet there
legacy_preprocess_features(feats) ==
    LET keys   == [i \in 1..Cardinality(DOMAIN feats) |->
                        CHOOSE k \in DOMAIN feats :
                            Cardinality({j \in DOMAIN feats :
                                            key_rank[j] < key_rank[k]}) = i - 1]
        given  == [i \in 1..Len(keys) |-> [name |-> keys[i], val |-> feats[keys[i]]]]
        hasBmi == S_Weight \in DOMAIN feats /\ S_Height \in DOMAIN feats
        bmi    == legacy_bmi(feats[S_Height], feats[S_Weight])
        withBmi == IF hasBmi THEN Append(given, [name |-> S_BMI, val |-> bmi.val])
                   ELSE given
        names  == {withBmi[i].name : i \in 1..Len(withBmi)}
        absent == SelectSeq(feature_defaults, LAMBDA d : d[1] \notin names)
    IN  IF hasBmi /\ bmi.exc # "none"
        THEN [exc |-> bmi.exc, df |-> <<>>]
        ELSE [exc |-> "none",
              df  |-> withBmi \o [i \in 1..Len(absent) |->
                                    [name |-> absent[i][1], val |-> absent[i][2]]]]

calculate_risk_level(prediction, probability) ==
    IF prediction \in {S_Obesity_Type_I, S_Obesity_Type_II, S_Obesity_Type_III}
    THEN "High"
    ELSE IF prediction \in {S_Overweight_Level_I, S_Overweight_Level_II}
    THEN "Medium"
    ELSE "Low"

get_recommendations(prediction, bmi) ==
    IF Contains(S_Obesity, prediction) \/ Contains(S_Overweight, prediction)
    THEN << "Consult with a healthcare professional for personalized advice",
            "Consider increasing physical activity to at least 150 minutes per week",
            "Focus on a balanced diet with plenty of fruits and vegetables",
            "Monitor caloric intake and portion sizes",
            "Stay hydrated with at least 8 glasses of water daily" >>
    ELSE IF Contains(S_Normal, prediction)
    THEN << "Maintain your current healthy lifestyle",
            "Continue regular physical activity",
            "Keep a balanced and varied diet",
            "Regular health check-ups are recommended" >>
    ELSE << "Consult with a healthcare professional",
            "Ensure adequate caloric intake",
            "Focus on nutrient-dense foods",
            "Consider strength training exercises" >>

\* the BMI bands of the mock prediction
mock_band(bmi) ==
    IF NumLess(bmi, Ratio(185, 10))
    THEN [category |-> S_Insufficient_Weight, risk |-> Ratio(1, 10)]
    ELSE IF NumLess(bmi, Num(25))
    THEN [category |-> S_Normal_Weight, risk |-> Ratio(2, 10)]
    ELSE IF NumLess(bmi, Num(30))
    THEN [category |-> S_Overweight_Level_I, risk |-> Ratio(5, 10)]
    ELSE IF NumLess(bmi, Num(35))
    THEN [category |-> S_Overweight_Level_II, risk |-> Ratio(65, 100)]
    ELSE IF NumLess(bmi, Num(40))
    THEN [category |-> S_Obesity_Type_I, risk |-> Ratio(75, 100)]
    ELSE IF NumLess(bmi, Num(45))
    THEN [category |-> S_Obesity_Type_II, risk |-> Ratio(85, 100)]
    ELSE [category |-> S_Obesity_Type_III, risk |-> Ratio(95, 100)]

\* the mock prediction returned when no model is loaded
legacy_mock_predict(feats) ==
    LET weight == dict_get(feats, S_Weight, Num(70))
        height == dict_get(feats, S_Height, Num(170))
        bmi    == legacy_bmi(height, weight)
        band   == mock_band(bmi.val)
    IN  IF bmi.exc # "none"
        THEN Raise(bmi.exc, NoMsg, <<"mock">>)
        ELSE [NoOutcome EXCEPT
                !.kind   = "return",
                !.steps  = <<"mock">>,
                !.result = [prediction      |-> band.category,
                            probability     |-> band.risk,
                            bmi             |-> round2(bmi.val),
                            risk_level      |-> IF NumLess(Ratio(6, 10), band.risk)
                                                THEN "High"
                                                ELSE IF NumLess(Ratio(3, 10), band.risk)
                                                THEN "Medium" ELSE "Low",
                            confidence      |-> Ratio(85, 100),
                            recommendations |-> get_recommendations(band.category,
                                                                    bmi.val)]]

\* the except clause of the legacy predict
LegacyError(steps) ==
    Raise("ValueError", Msg("Error making prediction", <<>>), steps)

\* model_trainer.ObesityPredictor.predict.  (Its feature_encoder loop looks
\* each column name up in the encoder's get_params(), which holds no column
\* name, so it changes nothing.)  Without a label encoder the class stays an
\* integer and get_recommendations fails on `"Obesity" in prediction`.
legacy_predict_classified(self, X, y) ==
    LET prob  == IF self.model.has_predict_proba
                 THEN model_predict_proba_max(self.model, X) ELSE Ratio(85, 100)
        label == inverse_transform(self.label_encoder, y.val)
        bmis  == {i \in 1..Len(X) : X[i].name = S_BMI}
        bmi   == IF bmis = {} THEN Num(0) ELSE X[Min(bmis)].val
        all   == <<"preprocess", "classify", "decode", "recommend">>
    IN  IF y.exc # "none" THEN LegacyError(<<"preprocess", "classify">>)
        ELSE IF self.label_encoder = None THEN LegacyError(all)
        ELSE IF label.exc # "none"
        THEN LegacyError(<<"preprocess", "classify", "decode">>)
        ELSE [NoOutcome EXCEPT
                !.kind   = "return",
                !.steps  = all,
                !.result = [prediction      |-> label.val,
                            probability     |-> prob,
                            bmi             |-> round2(bmi),
                            risk_level      |-> calculate_risk_level(label.val, prob),
                            confidence      |-> prob,
                            recommendations |-> get_recommendations(label.val, bmi)]]

legacy_predict_preprocessed(self, pre) ==
    IF pre.exc # "none" THEN LegacyError(<<"preprocess">>)
    ELSE legacy_predict_classified(self, pre.df, model_predict(self.model, pre.df))

legacy_predict(self, feats) ==
    IF self.model = None THEN legacy_mock_predict(feats)
    ELSE legacy_predict_preprocessed(self, legacy_preprocess_features(feats))

-----------------------------------------------------------------------------
(* app/routers/prediction.py *)

\* model_trainer.load_model: each of the three files under models/ is loaded
\* when it exists and unpickles, and a wrapper is returned around whatever
\* was loaded
trainer_load_model ==
    { [cls |-> "model_trainer.ObesityPredictor", model |-> None,
       feature_encoder |-> None, label_encoder |-> None],
      [cls |-> "model_trainer.ObesityPredictor", model |-> RandomForestClassifier,
       feature_encoder |-> StandardScaler, label_encoder |-> LabelEncoder],
      [cls |-> "model_trainer.ObesityPredictor", model |-> DummyModel,
       feature_encoder |-> None, label_encoder |-> LabelEncoder] }

\* app.ml.predictor.load_model, the loader the router imports: the predictor
\* with its three assets, the predictor with none of them, or no predictor
predictor_load_model ==
    { None,
      [cls |-> "predictor.ObesityPredictor", model |-> None,
       feature_encoder |-> None, label_encoder |-> None],
      [cls |-> "predictor.ObesityPredictor", model |-> RandomForestClassifier,
       feature_encoder |-> StandardScaler, label_encoder |-> LabelEncoder] }

\* load_model() as the router calls it
load_model == predictor_load_model \cup trainer_load_model

\* model.predict(features) on whichever wrapper the router holds
wrapper_predict(wrapper, feats) ==
    IF wrapper.cls = "predictor.ObesityPredictor"
    THEN predict(wrapper, feats)
    ELSE legacy_predict(wrapper, feats)

UserIds == {1, 2}

\* the rows the predictions table can hold
MaxPredictions == 2

\* the readings of datetime.now(): the clock may stand still between two
\* requests, and may be set back
MaxTime == 2

Times == 1..MaxTime

\* the values of the query parameter limit
Limits == {0, 1, 2, 50, 51}

\* PredictionInput objects that passed validation, as input_data.dict()
\* gives them: every field under its lower-case key
ValidatedInputs ==
    {MakeInput("lower", o) :
        o \in OptionsFor({}) \cup
              {o \in UNION {OptionsFor({f}) : f \in {S_Weight, S_CH2O, S_CAEC}} :
                  \A f \in Fields : o[f] \in {Plain(Num(90)), Plain(Num(1)),
                                              Plain(Str(S_InvalidValue)),
                                              Plain(BaseValues[f])}}}

NoStatus == [status |-> "", model_loaded |-> FALSE, has_random_forest |-> FALSE,
             has_feature_encoder |-> FALSE, has_label_encoder |-> FALSE]

Response(code, detail, result) ==
    [NoOutcome EXCEPT !.kind = "response", !.status_code = code,
                      !.detail = detail, !.result = result]
        @@ [body |-> NoStatus, history |-> <<>>, queried |-> FALSE]

RouterInit ==
    /\ NoAccounts
    /\ files = NoFiles
    /\ routerModel \in load_model
    /\ request = NoRequest
    /\ response = Response(0, NoMsg, NoResult)
    /\ predictions = <<>>
    /\ predictor = None
    /\ features = <<>>
    /\ outcome = NoOutcome
    /\ lastOp = "init"
    /\ probe = NoProbe

\* PredictionResponse accepts the result: probability and confidence in [0, 1]
response_valid(result) ==
    /\ ~NumLess(result.probability, Num(0)) /\ ~NumLess(Num(1), result.probability)
    /\ ~NumLess(result.confidence, Num(0)) /\ ~NumLess(Num(1), result.confidence)

\* answering without saving the prediction
respond_without_store(input_data, current_user, result, now) ==
    /\ response' = IF result.kind = "raise"
                   THEN Response(500,
                            [result.detail EXCEPT !.prefix = "Prediction system error"],
                            NoResult)
                   ELSE Response(200, NoMsg, result.result)
    /\ UNCHANGED predictions

\* the try block of make_prediction, from the predictor's answer on
store_and_respond(input_data, current_user, result, now) ==
    IF result.kind = "raise"
    THEN /\ response' = Response(500,
                [result.detail EXCEPT !.prefix = "Prediction system error"],
                NoResult)
         /\ UNCHANGED predictions
    ELSE /\ predictions' = Append(predictions,
                [user_id     |-> current_user,
                 prediction  |-> result.result.prediction,
                 probability |-> result.result.probability,
                 bmi         |-> result.result.bmi,
                 risk_level  |-> result.result.risk_level,
                 input_data  |-> input_data,
                 created_at  |-> now])
         /\ response' = IF response_valid(result.result)
                        THEN Response(200, NoMsg, result.result)
                        ELSE Response(500,
                                Msg("Prediction system error", <<>>), NoResult)

\* POST /predict
make_prediction(input_data, current_user, reloaded, now) ==
    LET model == IF routerModel = None THEN reloaded ELSE routerModel
    IN  /\ request' = [op |-> "predict", input_data |-> input_data,
                       user |-> current_user]
        /\ routerModel' = model
        /\ IF model = None
           THEN /\ response' = Response(503,
                        Msg("Prediction model is not available.", <<>>), NoResult)
                /\ UNCHANGED predictions
           ELSE store_and_respond(input_data, current_user,
                                  wrapper_predict(model, input_data), now)

\* what load_model() gives a request: it is called only while the router
\* holds no model
Reloads == IF routerModel = None THEN load_model ELSE {None}

MakePrediction ==
    /\ Len(predictions) < MaxPredictions
    /\ \E input_data \in ValidatedInputs, current_user \in UserIds,
          reloaded \in Reloads, now \in Times :
            make_prediction(input_data, current_user, reloaded, now)
    /\ UNCHANGED <<accountVars, files, predictor, features, outcome, lastOp, probe>>

\* GET /model-status
get_model_status(reloaded) ==
    LET model == IF routerModel = None THEN reloaded ELSE routerModel
    IN  /\ request' = [op |-> "model-status", input_data |-> <<>>, user |-> 0]
        /\ routerModel' = model
        /\ response' =
            [Response(200, NoMsg, NoResult) EXCEPT !.body =
                IF model = None
                THEN [NoStatus EXCEPT !.status = "unavailable"]
                ELSE [status              |-> "",
                      model_loaded        |-> TRUE,
                      has_random_forest   |-> model.model # None,
                      has_feature_encoder |-> model.feature_encoder # None,
                      has_label_encoder   |-> model.label_encoder # None]]
        /\ UNCHANGED predictions

GetModelStatus ==
    /\ \E reloaded \in Reloads : get_model_status(reloaded)
    /\ UNCHANGED <<accountVars, files, predictor, features, outcome, lastOp, probe>>

\* the positions of the user's rows in the table
rows_of(table, user_id) == {i \in 1..Len(table) : table[i].user_id = user_id}

\* order_by(Prediction.created_at.desc()): the orders the database may give
\* the rows at these positions in, rows of one created_at in any order
order_by_created_at_desc(table, positions) ==
    {s \in [1..Cardinality(positions) -> positions] :
        /\ \A j, k \in DOMAIN s : j # k => s[j] # s[k]
        /\ \A j, k \in DOMAIN s :
                j < k => table[s[j]].created_at >= table[s[k]].created_at}

\* .limit(limit).all() on the ordered rows
limit_all(table, ordered, limit) ==
    [j \in 1..(IF limit < Len(ordered) THEN limit ELSE Len(ordered)) |->
        table[ordered[j]]]

\* the test of limit letting every value through
limit_rejected_never(limit) == FALSE

\* if limit < 1 or limit > 50
limit_rejected(limit) == limit < 1 \/ limit > 50

\* GET /history
get_prediction_history(current_user, limit, ordered) ==
    /\ request' = [op |-> "history", input_data |-> <<limit>>, user |-> current_user]
    /\ response' =
        IF limit_rejected(limit)
        THEN Response(422, Msg("Limit must be between 1 and 50.", <<>>), NoResult)
        ELSE [Response(200, NoMsg, NoResult) EXCEPT
                    !.history = limit_all(predictions, ordered, limit),
                    !.queried = TRUE]
    /\ UNCHANGED <<predictions, routerModel>>

GetPredictionHistory ==
    /\ \E current_user \in UserIds, limit \in Limits :
        \E ordered \in order_by_created_at_desc(predictions,
                                                rows_of(predictions, current_user)) :
            get_prediction_history(current_user, limit, ordered)
    /\ UNCHANGED <<accountVars, files, predictor, features, outcome, lastOp, probe>>

RouterNext == MakePrediction \/ GetModelStatus \/ GetPredictionHistory

RouterSpec == RouterInit /\ [][RouterNext]_vars

-----------------------------------------------------------------------------
(* app/schemas/prediction.py: PredictionInput *)

Field(name, type, required, default, ge, gt, le) ==
    [name |-> str_lower(name), type |-> type, required |-> required,
     default |-> default, ge |-> ge, gt |-> gt, le |-> le]

\* the fields of PredictionInput in declaration order; a bound that is not
\* declared is None
schema_fields ==
    << Field(S_Gender, "str",   TRUE,  None, None, None, None),
       Field(S_Age,    "int",   TRUE,  None, Num(1), None, Num(120)),
       Field(S_Height, "float", TRUE,  None, None, Num(0), None),
       Field(S_Weight, "float", TRUE,  None, None, Num(0), None),
       Field(S_family, "str",   FALSE, Str(S_yes), None, None, None),
       Field(S_FAVC,   "str",   FALSE, Str(S_yes), None, None, None),
       Field(S_FCVC,   "float", FALSE, Num(2), Num(1), None, Num(3)),
       Field(S_NCP,    "float", FALSE, Num(3), Num(1), None, Num(4)),
       Field(S_CAEC,   "str",   FALSE, Str(S_Sometimes), None, None, None),
       Field(S_SMOKE,  "str",   FALSE, Str(S_no), None, None, None),
       Field(S_CH2O,   "float", FALSE, Num(2), Num(1), None, Num(3)),
       Field(S_SCC,    "str",   FALSE, Str(S_no), None, None, None),
       Field(S_FAF,    "float", FALSE, Num(1), Num(0), None, Num(3)),
       Field(S_TUE,    "float", FALSE, Num(1), Num(0), None, Num(2)),
       Field(S_CALC,   "str",   FALSE, Str(S_Sometimes), None, None, None),
       Field(S_MTRANS, "str",   FALSE, Str(S_Public_Transportation),
             None, None, None) >>

\* field_mapping of normalize_fields: upper-case name to field name
field_mapping ==
    [k \in {str_upper(schema_fields[i].name) : i \in 1..Len(schema_fields)} |->
        str_lower(k)]

\* normalize_fields: data is the request body, its (key, value) entries in
\* order; every key is replaced by its normalised form and a later entry
\* overwrites an earlier one with the same normalised key
normalized_key(key) ==
    IF str_upper(key) \in DOMAIN field_mapping
    THEN field_mapping[str_upper(key)]
    ELSE str_lower(key)

normalize_fields(data) ==
    LET keys == [i \in 1..Len(data) |-> normalized_key(data[i][1])]
    IN  [k \in Range(keys) |->
            data[CHOOSE i \in 1..Len(data) :
                    /\ keys[i] = k
                    /\ \A j \in 1..Len(data) : keys[j] = k => j <= i][2]]

IsDigits(s) == s # <<>> /\ \A i \in 1..Len(s) : IsDigitChar(s[i])

\* the conversion of a supplied value to the field's type
coerce(type, v) ==
    CASE type = "str" ->
            IF v.t = "str" THEN [err |-> "", val |-> v]
            ELSE [err |-> "string_type", val |-> None]
      [] type = "int" ->
            IF v.t = "num" /\ v.n % v.d = 0
            THEN [err |-> "", val |-> Num(v.n \div v.d)]
            ELSE IF v.t = "num" THEN [err |-> "int_from_float", val |-> None]
            ELSE IF v.t = "str" /\ IsDigits(v.s)
            THEN [err |-> "", val |-> Num(ParseDigits(v.s))]
            ELSE IF v.t = "str" THEN [err |-> "int_parsing", val |-> None]
            ELSE [err |-> "int_type", val |-> None]
      [] type = "float" ->
            IF v.t = "num" THEN [err |-> "", val |-> v]
            ELSE IF v.t = "str" /\ IsDigits(v.s)
            THEN [err |-> "", val |-> Num(ParseDigits(v.s))]
            ELSE IF v.t = "str" THEN [err |-> "float_parsing", val |-> None]
            ELSE [err |-> "float_type", val |-> None]

\* ge with the lower bound left out of the accepted range
satisfies_ge_strict(v, bound) == bound = None \/ NumLess(bound, v)

\* ge=bound
satisfies_ge(v, bound) == bound = None \/ ~NumLess(v, bound)

\* gt with the bound itself accepted
satisfies_gt_inclusive(v, bound) == bound = None \/ ~NumLess(v, bound)

\* gt=bound
satisfies_gt(v, bound) == bound = None \/ NumLess(bound, v)

\* le=bound
satisfies_le(v, bound) == bound = None \/ ~NumLess(bound, v)

\* the bounds of a field applied to a converted value
constrain(field, c) ==
    IF c.err # "" THEN c
    ELSE IF ~satisfies_gt(c.val, field.gt) THEN [err |-> "greater_than", val |-> None]
    ELSE IF ~satisfies_ge(c.val, field.ge)
    THEN [err |-> "greater_than_equal", val |-> None]
    ELSE IF ~satisfies_le(c.val, field.le)
    THEN [err |-> "less_than_equal", val |-> None]
    ELSE c

\* a field that was not supplied, with every field treated as optional
field_absent_lenient(field) ==
    [err |-> "", val |-> IF field.required THEN Num(1) ELSE field.default]

\* a field that was not supplied: its default, or an error when required
field_absent(field) ==
    IF field.required THEN [err |-> "missing", val |-> None]
    ELSE [err |-> "", val |-> field.default]

validate_field(field, normalized) ==
    IF field.name \in DOMAIN normalized
    THEN constrain(field, coerce(field.type, normalized[field.name]))
    ELSE field_absent(field)

\* the model built from the outcomes of the sixteen fields: the errors in
\* field order, and the values input_data.dict() returns
build_model(results) ==
    LET bad == SelectSeq([i \in 1..Len(results) |->
                            [loc |-> schema_fields[i].name, type |-> results[i].err]],
                         LAMBDA e : e.type # "")
    IN  [ok     |-> bad = <<>>,
         errors |-> bad,
         data   |-> IF bad # <<>> THEN <<>>
                    ELSE [k \in {schema_fields[i].name : i \in 1..Len(schema_fields)} |->
                            results[CHOOSE i \in 1..Len(schema_fields) :
                                        schema_fields[i].name = k].val]]

validate_normalized(normalized) ==
    build_model([i \in 1..Len(schema_fields) |->
                    validate_field(schema_fields[i], normalized)])

\* PredictionInput(**data), then .dict()
PredictionInput(data) == validate_normalized(normalize_fields(data))

-----------------------------------------------------------------------------
(* Requests to POST /predict, from the JSON body on *)

S_45 == <<"4","5">>

\* a field sent twice, under two casings of its key
Twice(v1, v2) == [how |-> "twice", v |-> v1, w |-> v2]

\* what a request body can hold for a field instead of the sample's value
BodyAlternatives ==
    [f \in Fields |->
        CASE f = S_Age    -> {Plain(Num(0)), Plain(Num(1)), Plain(Num(120)),
                              Plain(Num(121)), Plain(Num(-5)), Plain(Ratio(61, 2)),
                              Plain(Str(S_abc)), Plain(Str(S_45)), Plain(None),
                              Absent}
          [] f = S_Height -> {Plain(Num(0)), Plain(Num(-170)), Plain(Str(<<"0">>)),
                              Twice(Num(170), Num(0)), Absent}
          [] f = S_Weight -> {Plain(Num(90)), Plain(Num(0)), Absent}
          [] f = S_FCVC   -> {Plain(Num(5)), Absent}
          [] f = S_NCP    -> {Absent}
          [] f = S_CH2O   -> {Plain(Num(1)), Plain(Ratio(5, 2)), Plain(Num(3)),
                              Plain(Ratio(7, 2)), Twice(Num(1), Num(3)), Absent}
          [] f = S_FAF    -> {Plain(Num(0)), Absent}
          [] f = S_TUE    -> {Absent}
          [] f = S_Gender -> {Plain(Str(S_Female)), Absent}
          [] f = S_family -> {Absent}
          [] f = S_FAVC   -> {Plain(Str(S_yes)), Plain(Num(1)), Absent}
          [] f = S_CAEC   -> {Plain(Str(S_Always)), Plain(Str(S_InvalidValue)), Absent}
          [] f = S_SMOKE  -> {Absent}
          [] f = S_SCC    -> {Absent}
          [] f = S_CALC   -> {Absent}
          [] f = S_MTRANS -> {Plain(Str(S_Walking)), Absent}]

\* at most this many fields of one body depart from the body it starts from
MaxBodyDeviations == 1

\* the (key, value) entries one field contributes to the body
body_entries(style, name, option) ==
    CASE option.how = "plain"  -> << <<styled_key(style, name), option.v>> >>
      [] option.how = "absent" -> << >>
      [] option.how = "twice"  -> << <<odd_key(name), option.v>>,
                                     <<styled_key(style, name), option.w>> >>

\* the body: the entries of the fields in the order of the schema
MakeBody(style, options) ==
    ConcatAll([i \in 1..Len(schema_fields) |->
        LET f == CHOOSE f \in Fields : str_lower(f) = schema_fields[i].name
        IN  body_entries(style, f, options[f])])

\* the bodies start from the full sample or from the four required fields
BodyBases ==
    { [f \in Fields |-> Plain(BaseValues[f])],
      [f \in Fields |-> IF f \in {S_Gender, S_Age, S_Height, S_Weight}
                        THEN Plain(BaseValues[f]) ELSE Absent] }

BodyOptionsFor(base, D) ==
    {[f \in Fields |-> IF f \in D THEN c[f] ELSE base[f]] :
        c \in {c \in [D -> UNION {BodyAlternatives[f] : f \in D}] :
                  \A f \in D : c[f] \in BodyAlternatives[f] /\ c[f] # base[f]}}

Bodies ==
    {MakeBody(style, o) :
        style \in {"lower", "upper"},
        o \in UNION {BodyOptionsFor(base, D) :
                        base \in BodyBases,
                        D \in {D \in SUBSET Fields :
                                  Cardinality(D) <= MaxBodyDeviations}}}

\* the predictors the service can hold when a request arrives
ServiceModels ==
    {m \in load_model : m = None \/ m.model = RandomForestClassifier}

NoValidation == [ok |-> FALSE, errors |-> <<>>, data |-> <<>>]

ApiInit ==
    /\ NoAccounts
    /\ files = NoFiles
    /\ routerModel \in ServiceModels
    /\ features \in Bodies
    /\ request = NoRequest
    /\ response = Response(0, NoMsg, NoResult)
    /\ predictions = <<>>
    /\ predictor = None
    /\ outcome = NoValidation
    /\ lastOp = "init"
    /\ probe = NoProbe

\* the request after the body was parsed: 422 with the first error when the
\* body does not validate, else the handler on the validated model
answer_request(validated, current_user, reloaded, now) ==
    /\ outcome' = validated
    /\ IF validated.ok
       THEN make_prediction(validated.data, current_user, reloaded, now)
       ELSE /\ request' = [op |-> "predict", input_data |-> <<>>,
                           user |-> current_user]
            /\ response' = Response(422, Msg(validated.errors[1].type,
                                             validated.errors[1].loc), NoResult)
            /\ UNCHANGED <<routerModel, predictions>>

\* POST /predict with the body `features`
PostPredict ==
    /\ Len(predictions) < MaxPredictions
    /\ \E validated \in {PredictionInput(features)} :
       \E current_user \in UserIds, reloaded \in ServiceModels, now \in Times :
            answer_request(validated, current_user, reloaded, now)
    /\ lastOp' = "POST /predict"
    /\ UNCHANGED <<accountVars, files, predictor, features, probe>>

ApiNext == PostPredict

ApiSpec == ApiInit /\ [][ApiNext]_vars

-----------------------------------------------------------------------------
(* The users table, passwords and tokens (app/auth, app/routers/auth.py) *)

Emails == {"a@x.io", "b@x.io", "c@x.io"}

Usernames == {"ann", "bob", "cat"}

\* the password every account is created with, and one that is not it
Passwords == {"pw", "other"}

NoEmail == ""

\* no row: what query(...).first() gives when nothing matches
NoUser ==
    [id |-> 0, email |-> NoEmail, username |-> "", hashed_password |-> "",
     is_active |-> FALSE, is_admin |-> FALSE]

\* User(email, username, hashed_password, ...) once it has its id; is_active
\* defaults to True
User(id, email, username, hashed_password, is_admin) ==
    [id |-> id, email |-> email, username |-> username,
     hashed_password |-> hashed_password, is_active |-> TRUE,
     is_admin |-> is_admin]

\* the rows the table holds
Rows(table) == {table[i] : i \in 1..Len(table)} \ {NoUser}

\* db.query(User).filter(User.id == user_id).first()
first_by_id(table, user_id) ==
    IF user_id \in 1..Len(table) THEN table[user_id] ELSE NoUser

\* db.query(User).filter(User.email == email).first()
first_by_email(table, email) ==
    IF \E r \in Rows(table) : r.email = email
    THEN CHOOSE r \in Rows(table) : r.email = email
    ELSE NoUser

\* db.query(User).filter(User.username == username).first()
first_by_username(table, username) ==
    IF \E r \in Rows(table) : r.username = username
    THEN CHOOSE r \in Rows(table) : r.username = username
    ELSE NoUser

\* the unique constraints of the users table: a commit of this row fails
violates_unique(table, row) ==
    \E r \in Rows(table) :
        r.id # row.id /\ (r.email = row.email \/ r.username = row.username)

\* pwd_context.hash(password)
get_password_hash(password) == "bcrypt$" \o password

\* pwd_context.verify(plain_password, hashed_password)
verify_password(plain_password, hashed_password) ==
    hashed_password = get_password_hash(plain_password)

\* jwt.encode of the data with the secret key: the claims under a signature
create_access_token(data) == [signed |-> TRUE, sub |-> data.sub]

\* a token that jwt.decode rejects (bad signature, expired), and a signed
\* token that carries no subject
ForgedToken == [signed |-> FALSE, sub |-> "a@x.io"]
TokenWithoutSub == [signed |-> TRUE, sub |-> NoEmail]
NoToken == [signed |-> FALSE, sub |-> NoEmail]

\* verify_token: the subject, or NoEmail for None
verify_token(token) ==
    IF ~token.signed THEN NoEmail
    ELSE token.sub

\* what a dependency or handler answers: a status, a detail and, on success,
\* the user it returns
Answer(status_code, detail, user) ==
    [status_code |-> status_code, detail |-> detail, user |-> user]

\* get_current_user with the token accepted whatever the user's is_active
get_current_user_any(token, table) ==
    IF verify_token(token) = NoEmail
    THEN Answer(401, "Could not validate credentials", NoUser)
    ELSE IF first_by_email(table, verify_token(token)) = NoUser
    THEN Answer(401, "Could not validate credentials", NoUser)
    ELSE Answer(200, "", first_by_email(table, verify_token(token)))

\* get_current_user
get_current_user(token, table) ==
    IF verify_token(token) = NoEmail
    THEN Answer(401, "Could not validate credentials", NoUser)
    ELSE IF first_by_email(table, verify_token(token)) = NoUser
    THEN Answer(401, "Could not validate credentials", NoUser)
    ELSE IF ~first_by_email(table, verify_token(token)).is_active
    THEN Answer(400, "Inactive user", NoUser)
    ELSE Answer(200, "", first_by_email(table, verify_token(token)))

\* get_current_active_user, on what get_current_user answered
get_current_active_user(current) ==
    IF current.status_code # 200 THEN current
    ELSE IF ~current.user.is_active THEN Answer(400, "Inactive user", NoUser)
    ELSE current

\* get_current_admin_user letting every active user through
get_current_admin_user_open(current) == current

\* get_current_admin_user, on what get_current_active_user answered
get_current_admin_user(current) ==
    IF current.status_code # 200 THEN current
    ELSE IF ~current.user.is_admin
    THEN Answer(403, "Not enough permissions", NoUser)
    ELSE current

\* the dependencies of an admin endpoint, resolved in order
admin_dependencies(token, table) ==
    get_current_admin_user(get_current_active_user(get_current_user(token, table)))

\* login with the password not looked at
login_any_password(email, password, table) ==
    IF first_by_email(table, email) = NoUser
    THEN Answer(401, "Incorrect email or password", NoUser)
    ELSE IF ~first_by_email(table, email).is_active
    THEN Answer(400, "Inactive user", NoUser)
    ELSE Answer(200, "Login successful", first_by_email(table, email))

\* login, up to the creation of the token
login(email, password, table) ==
    IF first_by_email(table, email) = NoUser
    THEN Answer(401, "Incorrect email or password", NoUser)
    ELSE IF ~verify_password(password, first_by_email(table, email).hashed_password)
    THEN Answer(401, "Incorrect email or password", NoUser)
    ELSE IF ~first_by_email(table, email).is_active
    THEN Answer(400, "Inactive user", NoUser)
    ELSE Answer(200, "Login successful", first_by_email(table, email))

-----------------------------------------------------------------------------
(* Requests to the auth and admin routers *)

\* at most this many rows are ever created in the users table
MaxUsers == 3

\* at most this many requests are started
MaxRequests == 3

\* at most this many requests are between two of their steps at once
MaxInflight == 2

\* a reply: the operation, its status and detail, who held the token, the
\* user the request ran as, the target user, the body's email, username and
\* password, and the token that was sent or, for login, created; a status of
\* 0 is a request that goes on to its next step
Reply(op, status_code, detail, holder, user, user_id, body, token) ==
    [op |-> op, status_code |-> status_code, detail |-> detail,
     holder |-> holder, user |-> user, user_id |-> user_id,
     email |-> body.email, username |-> body.username,
     password |-> body.password, token |-> token]

Body(email, username, password) ==
    [email |-> email, username |-> username, password |-> password]

NoReply == Reply("none", 0, "", 0, 0, 0, Body(NoEmail, "", ""), NoToken)

\* a request that passed a step and waits for its next one
Entry(op, stage, bearer, current_user, user_id, email, username) ==
    [op |-> op, stage |-> stage, holder |-> bearer.to, token |-> bearer.token,
     current_user |-> current_user, user_id |-> user_id, email |-> email,
     username |-> username]

\* a request that carries no token
NoBearer == [token |-> NoToken, to |-> 0]

\* the reply to a request that stops at one of its steps
reply_to(entry, status_code, detail) ==
    Reply(entry.op, status_code, detail, entry.holder, entry.current_user.id,
          entry.user_id, Body(entry.email, entry.username, ""), entry.token)

\* the table as the administrator's tests set it up: an admin, alone or with
\* a second admin or an ordinary user
InitialUsers ==
    { << User(1, "a@x.io", "ann", get_password_hash("pw"), TRUE) >>,
      << User(1, "a@x.io", "ann", get_password_hash("pw"), TRUE),
         User(2, "b@x.io", "bob", get_password_hash("pw"), TRUE) >>,
      << User(1, "a@x.io", "ann", get_password_hash("pw"), TRUE),
         User(2, "b@x.io", "bob", get_password_hash("pw"), FALSE) >> }

\* the token login gives the user, and who it was given to
IssuedTo(row) ==
    [token |-> create_access_token([sub |-> row.email]), to |-> row.id]

\* who can send a bearer token: the holder of an issued one, or anyone with a
\* token the application did not issue
Bearers ==
    issued \cup {[token |-> ForgedToken, to |-> 0],
                 [token |-> TokenWithoutSub, to |-> 0]}

AccountsInit ==
    /\ users \in InitialUsers
    /\ issued = {IssuedTo(users[i]) : i \in 1..Len(users)}
    /\ inflight = {}
    /\ started = 0
    /\ response = NoReply
    /\ lastOp = "init"
    /\ predictions = <<>>
    /\ request = NoRequest
    /\ routerModel = None
    /\ predictor = None
    /\ features = <<>>
    /\ outcome = NoOutcome
    /\ probe = NoProbe
    /\ files = NoFiles

otherVars == <<predictor, features, outcome, probe, routerModel, request, files>>

CanStart == started < MaxRequests

CanWait == Cardinality(inflight) < MaxInflight

\* register, up to the two lookups: the request goes on to create the user,
\* or is answered 400
RegisterChecks ==
    /\ CanStart /\ CanWait
    /\ Len(users) + Cardinality({e \in inflight : e.op = "register"}) < MaxUsers
    /\ \E email \in Emails, username \in Usernames :
        \E entry \in {Entry("register", "checked", NoBearer, NoUser, 0, email, username)} :
            /\ started' = started + 1
            /\ lastOp' = "register"
            /\ IF first_by_email(users, email) # NoUser
               THEN /\ response' = reply_to(entry, 400, "Email already registered")
                    /\ UNCHANGED inflight
               ELSE IF first_by_username(users, username) # NoUser
               THEN /\ response' = reply_to(entry, 400, "Username already registered")
                    /\ UNCHANGED inflight
               ELSE /\ response' = reply_to(entry, 0, "")
                    /\ inflight' = inflight \cup {entry}
    /\ UNCHANGED <<users, issued, predictions, otherVars>>

\* a new account that is an administrator from the start
new_user_admin(id, email, username) ==
    User(id, email, username, get_password_hash("pw"), TRUE)

\* the User that register builds: is_admin is False
new_user(id, email, username) ==
    User(id, email, username, get_password_hash("pw"), FALSE)

\* register, from db.add on: the commit creates the user, or fails on a
\* unique constraint and is rolled back
RegisterCommit ==
    /\ \E entry \in inflight :
        /\ entry.op = "register"
        /\ inflight' = inflight \ {entry}
        /\ lastOp' = "register"
        /\ \E db_user \in {new_user(Len(users) + 1, entry.email, entry.username)} :
            IF violates_unique(users, db_user)
            THEN /\ response' = reply_to(entry, 500, "An internal server error occurred")
                 /\ UNCHANGED users
            ELSE /\ response' = [reply_to(entry, 201, "Registration successful")
                                    EXCEPT !.user = db_user.id]
                 /\ users' = Append(users, db_user)
    /\ UNCHANGED <<issued, started, predictions, otherVars>>

\* POST /login
Login ==
    /\ CanStart
    /\ \E email \in Emails, password \in Passwords :
        \E answer \in {login(email, password, users)} :
            /\ started' = started + 1
            /\ lastOp' = "login"
            /\ IF answer.status_code = 200
               THEN /\ issued' = issued \cup {IssuedTo(answer.user)}
                    /\ response' = Reply("login", 200, answer.detail, answer.user.id,
                                         answer.user.id, 0, Body(email, "", password),
                                         create_access_token([sub |-> answer.user.email]))
               ELSE /\ response' = Reply("login", answer.status_code, answer.detail,
                                         0, 0, 0, Body(email, "", password), NoToken)
                    /\ UNCHANGED issued
    /\ UNCHANGED <<users, inflight, predictions, otherVars>>

\* GET /me: a protected operation open to every active user
ReadUsersMe ==
    /\ CanStart
    /\ \E bearer \in Bearers :
        \E current \in {get_current_active_user(get_current_user(bearer.token, users))} :
            /\ started' = started + 1
            /\ lastOp' = "read_users_me"
            /\ response' = Reply("read_users_me", current.status_code, current.detail,
                                 bearer.to, current.user.id, 0, Body(NoEmail, "", ""),
                                 bearer.token)
    /\ UNCHANGED <<users, issued, inflight, predictions, otherVars>>

\* POST /predict and GET /history up to their handler: they depend on
\* get_current_user alone
CurrentUser ==
    /\ CanStart
    /\ \E bearer \in Bearers :
        \E current \in {get_current_user(bearer.token, users)} :
            /\ started' = started + 1
            /\ lastOp' = "get_current_user"
            /\ response' = Reply("get_current_user", current.status_code, current.detail,
                                 bearer.to, current.user.id, 0, Body(NoEmail, "", ""),
                                 bearer.token)
    /\ UNCHANGED <<users, issued, inflight, predictions, otherVars>>

AdminOps == {"delete_user", "toggle_user_status", "toggle_admin_status", "update_user"}

\* the body of a PUT /users/{user_id}: an email or a username, the rest unset
Updates ==
    {[email |-> e, username |-> ""] : e \in Emails}
    \cup {[email |-> NoEmail, username |-> u] : u \in Usernames}

NoUpdate == [email |-> NoEmail, username |-> ""]

\* the dependencies of an admin endpoint: the request goes on to its handler
\* with current_admin, or is answered 401, 400 or 403
Authorise ==
    /\ CanStart /\ CanWait
    /\ \E bearer \in Bearers, op \in AdminOps, user_id \in 1..(Len(users) + 1) :
        \E update \in (IF op = "update_user" THEN Updates ELSE {NoUpdate}) :
            \E current \in {admin_dependencies(bearer.token, users)} :
                \E entry \in {Entry(op, "authorised", bearer, current.user,
                                    user_id, update.email, update.username)} :
                    /\ started' = started + 1
                    /\ lastOp' = "get_current_admin_user"
                    /\ response' = reply_to(entry,
                            IF current.status_code = 200 THEN 0
                            ELSE current.status_code, current.detail)
                    /\ inflight' = IF current.status_code = 200
                                   THEN inflight \cup {entry} ELSE inflight
    /\ UNCHANGED <<users, issued, predictions, otherVars>>

\* delete_user without the test for the administrator's own account
delete_user_any(entry, table) ==
    IF first_by_id(table, entry.user_id) = NoUser
    THEN [status_code |-> 404, detail |-> "Utilisateur non trouve", table |-> table]
    ELSE [status_code |-> 200, detail |-> "supprime avec succes",
          table |-> [table EXCEPT ![entry.user_id] = NoUser]]

\* the body of delete_user: the answer and the table it leaves
delete_user(entry, table) ==
    IF first_by_id(table, entry.user_id) = NoUser
    THEN [status_code |-> 404, detail |-> "Utilisateur non trouve", table |-> table]
    ELSE IF entry.user_id = entry.current_user.id
    THEN [status_code |-> 400,
          detail |-> "Impossible de supprimer votre propre compte", table |-> table]
    ELSE [status_code |-> 200, detail |-> "supprime avec succes",
          table |-> [table EXCEPT ![entry.user_id] = NoUser]]

\* the body of toggle_user_status
toggle_user_status(entry, table) ==
    IF first_by_id(table, entry.user_id) = NoUser
    THEN [status_code |-> 404, detail |-> "Utilisateur non trouve", table |-> table]
    ELSE IF entry.user_id = entry.current_user.id
    THEN [status_code |-> 400,
          detail |-> "Impossible de modifier le statut de votre propre compte",
          table |-> table]
    ELSE [status_code |-> 200, detail |-> "statut modifie",
          table |-> [table EXCEPT ![entry.user_id].is_active = ~@]]

\* the body of toggle_admin_status
toggle_admin_status(entry, table) ==
    IF first_by_id(table, entry.user_id) = NoUser
    THEN [status_code |-> 404, detail |-> "Utilisateur non trouve", table |-> table]
    ELSE IF entry.user_id = entry.current_user.id
    THEN [status_code |-> 400,
          detail |-> "Impossible de modifier vos propres droits administrateur",
          table |-> table]
    ELSE [status_code |-> 200, detail |-> "droits modifies",
          table |-> [table EXCEPT ![entry.user_id].is_admin = ~@]]

\* the handler of an admin request that was let through
handle(entry, table) ==
    CASE entry.op = "delete_user"         -> delete_user(entry, table)
      [] entry.op = "toggle_user_status"  -> toggle_user_status(entry, table)
      [] entry.op = "toggle_admin_status" -> toggle_admin_status(entry, table)

\* DELETE /users/{user_id}, toggle-status and make-admin: the handler's body
HandleAdmin ==
    /\ \E entry \in inflight :
        /\ entry.op \in {"delete_user", "toggle_user_status", "toggle_admin_status"}
        /\ \E done \in {handle(entry, users)} :
            /\ users' = done.table
            /\ response' = reply_to(entry, done.status_code, done.detail)
        /\ predictions' = IF entry.op = "delete_user"
                          THEN SelectSeq(predictions,
                                         LAMBDA row : row.user_id # entry.user_id)
                          ELSE predictions
        /\ inflight' = inflight \ {entry}
        /\ lastOp' = entry.op
    /\ UNCHANGED <<issued, started, otherVars>>

\* update_user with the new email not looked up
update_user_lookup_any(entry, table) ==
    IF first_by_id(table, entry.user_id) = NoUser
    THEN [status_code |-> 404, detail |-> "Utilisateur non trouve"]
    ELSE [status_code |-> 0, detail |-> ""]

\* update_user up to the lookup of the new email
update_user_lookup(entry, table) ==
    IF first_by_id(table, entry.user_id) = NoUser
    THEN [status_code |-> 404, detail |-> "Utilisateur non trouve"]
    ELSE IF /\ entry.email # NoEmail
            /\ entry.email # first_by_id(table, entry.user_id).email
            /\ first_by_email(table, entry.email) # NoUser
    THEN [status_code |-> 400, detail |-> "Cet email est deja utilise"]
    ELSE [status_code |-> 0, detail |-> ""]

UpdateUserLookup ==
    /\ \E entry \in inflight :
        /\ entry.op = "update_user" /\ entry.stage = "authorised"
        /\ \E found \in {update_user_lookup(entry, users)} :
            /\ response' = reply_to(entry, found.status_code, found.detail)
            /\ inflight' = IF found.status_code = 0
                           THEN (inflight \ {entry})
                                    \cup {[entry EXCEPT !.stage = "checked"]}
                           ELSE inflight \ {entry}
        /\ lastOp' = "update_user"
    /\ UNCHANGED <<users, issued, started, predictions, otherVars>>

\* the row with the fields of the body set on it
updated_row(row, entry) ==
    [row EXCEPT !.email = IF entry.email # NoEmail THEN entry.email ELSE @,
                !.username = IF entry.username # "" THEN entry.username ELSE @]

\* update_user from setattr on: the commit writes the row, or fails when the
\* row is gone or a unique constraint is violated
UpdateUserCommit ==
    /\ \E entry \in inflight :
        /\ entry.op = "update_user" /\ entry.stage = "checked"
        /\ inflight' = inflight \ {entry}
        /\ lastOp' = "update_user"
        /\ IF first_by_id(users, entry.user_id) = NoUser
           THEN /\ response' = reply_to(entry, 500, "StaleDataError")
                /\ UNCHANGED users
           ELSE \E row \in {updated_row(users[entry.user_id], entry)} :
                    IF violates_unique(users, row)
                    THEN /\ response' = reply_to(entry, 500, "IntegrityError")
                         /\ UNCHANGED users
                    ELSE /\ response' = reply_to(entry, 200, "")
                         /\ users' = [users EXCEPT ![entry.user_id] = row]
    /\ UNCHANGED <<issued, started, predictions, otherVars>>

AccountsNext ==
    \/ RegisterChecks
    \/ RegisterCommit
    \/ Login
    \/ ReadUsersMe
    \/ CurrentUser
    \/ Authorise
    \/ HandleAdmin
    \/ UpdateUserLookup
    \/ UpdateUserCommit

AccountsSpec == AccountsInit /\ [][AccountsNext]_vars

-----------------------------------------------------------------------------
(* Properties of the encoder and of predict *)

\* the required fields that get_value does not find, in processing order
RequiredFields == numerical_features \o categorical_features

MissingFields(feats) ==
    SelectSeq(RequiredFields, LAMBDA f : get_value(feats, f) = None)

AllPresent(feats) == MissingFields(feats) = <<>>

\* the value a categorical field is compared by: Gender after capitalisation
ComparedValue(feats, f) ==
    LET v == get_value(feats, f)
    IN  IF f = S_Gender /\ v.t = "str" THEN str_capitalize(v.s) ELSE v.s

InVocabulary(feats, f) ==
    /\ get_value(feats, f).t = "str"
    /\ ComparedValue(feats, f) \in Range(categorical_values[f])

\* the columns of a frame that belong to one categorical field
BlockOf(df, f) ==
    SelectSeq(df, LAMBDA c : /\ Len(c.name) > Len(f)
                             /\ SubSeq(c.name, 1, Len(f) + 1) = f \o <<"_">>)

\* C1: a frame returned by preprocess_features has exactly 31 columns,
\* whichever categorical values were supplied, and predict never fails with
\* 'Feature mismatch'.
C1_FrameHas31Columns ==
    /\ (lastOp = "preprocess_features" /\ outcome.kind = "return")
            => (AllPresent(features) /\ Len(outcome.df) = 31)
    /\ lastOp = "predict" => outcome.detail.kind # "Feature mismatch"

C1_Witness ==
    /\ lastOp = "preprocess_features"
    /\ outcome.kind = "return"
    /\ get_value(features, S_CAEC) = Str(S_InvalidValue)
    /\ get_value(features, S_MTRANS) = Str(S_Walking)
    /\ Len(outcome.df) = 31

\* C2: for a categorical field whose supplied value is in the field's
\* vocabulary (Gender after capitalisation), the field's block of the frame
\* has one column per vocabulary entry, in vocabulary order, with 1 in the
\* column of the supplied value and 0 in all the others.
C2_OneHotBlock ==
    (lastOp = "preprocess_features" /\ outcome.kind = "return") =>
        \A f \in Range(categorical_features) :
            InVocabulary(features, f) =>
                LET vocab == categorical_values[f]
                    block == BlockOf(outcome.df, f)
                IN  /\ Len(block) = Len(vocab)
                    /\ \A i \in 1..Len(vocab) :
                          /\ block[i].name = f \o <<"_">> \o vocab[i]
                          /\ block[i].val =
                                IF vocab[i] = ComparedValue(features, f)
                                THEN Num(1) ELSE Num(0)
                    /\ Cardinality({i \in 1..Len(block) : block[i].val = Num(1)}) = 1

C2_Witness ==
    /\ lastOp = "preprocess_features"
    /\ outcome.kind = "return"
    /\ get_value(features, S_Gender) = Str(S_MALE)
    /\ BlockOf(outcome.df, S_Gender)[2] = [name |-> S_Gender \o <<"_">> \o S_Male,
                                           val |-> Num(1)]
    /\ BlockOf(outcome.df, S_Gender)[1].val = Num(0)

\* the input has a categorical value outside its vocabulary and nothing else
\* wrong with it
UnknownCategories(feats) ==
    {f \in Range(categorical_features) :
        get_value(feats, f) # None /\ ~InVocabulary(feats, f)}

NumbersValid(feats) ==
    /\ \A f \in Range(numerical_features) : get_value(feats, f).t = "num"
    /\ get_value(feats, S_Height).n # 0

\* C3: with a loaded model, an input carrying a categorical value outside
\* the field's vocabulary makes predict fail with an unknown-category error
\* naming the field and the value, and no result is produced.
C3_UnknownCategoryFails ==
    (/\ lastOp = "predict"
     /\ predictor.model # None
     /\ AllPresent(features)
     /\ NumbersValid(features)
     /\ UnknownCategories(features) # {})
        => /\ outcome.kind = "raise"
           /\ outcome.result = NoResult
           /\ \E f \in UnknownCategories(features) :
                 /\ outcome.detail.kind = "Unknown category"
                 /\ outcome.detail.arg = f

\* the failure predict reports for an absent field f
IsMissingFeatureError(o, f) ==
    /\ o.kind = "raise"
    /\ o.exc = "HTTPException"
    /\ o.status_code = 400
    /\ o.detail.prefix = "Invalid input"
    /\ o.detail.kind \in {"Missing required numerical feature",
                          "Missing required categorical feature"}
    /\ o.detail.arg = f
    /\ "classify" \notin Range(o.steps)
    /\ o.result = NoResult

\* C4 as stated: with a loaded model, for every required field that is
\* absent under every accepted key variant or present only as null, predict
\* fails with a missing-feature client error naming that field, the
\* classifier is never called and no result is returned.
C4_EveryMissingFieldNamed ==
    (lastOp = "predict" /\ predictor.model # None) =>
        \A f \in Range(MissingFields(features)) :
            IsMissingFeatureError(outcome, f)

\* the numerical fields processed before field f hold numbers
NumbersBefore(feats, f) ==
    \A i \in 1..Len(numerical_features) :
        LET g == numerical_features[i]
        IN  (\E j \in 1..Len(RequiredFields) :
                /\ RequiredFields[j] = f
                /\ i < j) => get_value(feats, g).t \in {"num", "none"}

\* C4 amended: with a loaded model and some required field absent, predict
\* returns no result and never calls the classifier, and it fails with the
\* 400 missing-feature error naming the first absent field in processing
\* order whenever the numerical fields before that one hold numbers.
C4_FirstMissingFieldNamed ==
    (/\ lastOp = "predict"
     /\ predictor.model # None
     /\ ~AllPresent(features)) =>
        /\ outcome.kind = "raise"
        /\ outcome.result = NoResult
        /\ "classify" \notin Range(outcome.steps)
        /\ NumbersBefore(features, Head(MissingFields(features)))
              => IsMissingFeatureError(outcome, Head(MissingFields(features)))

C4_Witness ==
    /\ lastOp = "predict"
    /\ predictor.model # None
    /\ str_lower(S_Weight) \in DOMAIN features
    /\ features[str_lower(S_Weight)] = None
    /\ MissingFields(features) = <<S_Weight, S_MTRANS>>
    /\ IsMissingFeatureError(outcome, S_Weight)

\* C5: when the model is not loaded, predict raises 'Model not loaded' for
\* every input, valid or not, before any preprocessing, and returns nothing.
C5_ModelUnavailable ==
    (lastOp = "predict" /\ predictor.model = None) =>
        /\ outcome.kind = "raise"
        /\ outcome.exc = "RuntimeError"
        /\ outcome.detail.kind = "Model not loaded"
        /\ outcome.steps = <<>>
        /\ outcome.result = NoResult

C5_Witness ==
    /\ lastOp = "predict"
    /\ predictor.model = None
    /\ ~AllPresent(features)
    /\ outcome.exc = "RuntimeError"

\* the mapping holds exactly keys of one casing style
IsStyled(feats, style) ==
    DOMAIN feats \subseteq {styled_key(style, f) : f \in Fields}

\* the same values under the keys of another casing style
Restyle(feats, from, to) ==
    LET present == {f \in Fields : styled_key(from, f) \in DOMAIN feats}
    IN  [k \in {styled_key(to, f) : f \in present} |->
            feats[styled_key(from, CHOOSE f \in present : styled_key(to, f) = k)]]

\* C7: two inputs to predict that hold the same values and differ only in
\* the casing of their keys (canonical, all lower-case, all upper-case) give
\* identical outcomes: class, probability, bmi, risk level, recommendations.
C7_SameResultAnyCasing ==
    lastOp = "predict" =>
        \A s1, s2 \in {"canonical", "lower", "upper"} :
            IsStyled(features, s1) =>
                predict(predictor, Restyle(features, s1, s2)) = outcome

\* C8: for height > 0 and weight > 0 the BMI returned by preprocess_features
\* is weight / (height/100)^2 of the raw input values, with and without a
\* fitted scaler.
C8_BmiFromRawValues ==
    (lastOp = "preprocess_features" /\ outcome.kind = "return") =>
        LET h == get_value(features, S_Height)
            w == get_value(features, S_Weight)
        IN  (h.t = "num" /\ w.t = "num" /\ h.n > 0 /\ w.n > 0) =>
                /\ outcome.bmi = Ratio(w.n * 10000, h.n * h.n)
                /\ \A enc \in {None, StandardScaler} :
                      preprocess_features(
                          [predictor EXCEPT !.feature_encoder = enc],
                          features).bmi = outcome.bmi

C8_Witness ==
    /\ lastOp = "preprocess_features"
    /\ outcome.kind = "return"
    /\ predictor.feature_encoder # None
    /\ get_value(features, S_Height) = Num(170)
    /\ get_value(features, S_Weight) = Num(90)
    /\ outcome.df[2].val # Num(170)
    /\ outcome.bmi.n * 289 = 9000 * outcome.bmi.d

\* C6: when the model artifact is not loaded, POST /predict is answered with
\* 503, never with 500 and never with a mocked prediction.
C6_NotLoadedGives503 ==
    (request.op = "predict" /\ (routerModel = None \/ routerModel.model = None))
        => (response.status_code = 503 /\ response.result = NoResult)

C10_NoWriteAfterStartup ==
    [][routerModel' = routerModel /\ predictor' = predictor]_vars

-----------------------------------------------------------------------------
(* Properties of the requests to POST /predict *)

\* the value the body holds for a field once its keys are normalised
Supplied(body, name) ==
    LET data == normalize_fields(body)
    IN  IF str_lower(name) \in DOMAIN data THEN data[str_lower(name)] ELSE None

IsSupplied(body, name) == str_lower(name) \in DOMAIN normalize_fields(body)

\* validation reported an error of one of the given types for the field
HasError(validated, name, types) ==
    \E i \in 1..Len(validated.errors) :
        /\ validated.errors[i].loc = str_lower(name)
        /\ validated.errors[i].type \in types

\* the request was refused by validation: 422, the handler never ran, so
\* nothing was predicted and nothing stored
RefusedByValidation ==
    /\ response.status_code = 422
    /\ response.result = NoResult
    /\ request.input_data = <<>>
    /\ predictions = <<>>

\* C11: an integer age in 1..120 (1 and 120 included) passes validation of
\* the age field; every integer age outside 1..120 (0, 121, negatives) is
\* refused with a range error on age, before the handler, encoder or
\* classifier runs.
C11_AgeRange ==
    (/\ lastOp = "POST /predict"
     /\ Supplied(features, S_Age).t = "num"
     /\ Supplied(features, S_Age).d = 1) =>
        IF Supplied(features, S_Age).n \in 1..120
        THEN /\ ~HasError(outcome, S_Age, {"greater_than_equal", "less_than_equal",
                                           "int_type", "int_parsing",
                                           "int_from_float", "missing"})
             /\ outcome.ok => outcome.data[str_lower(S_Age)] = Supplied(features, S_Age)
        ELSE /\ HasError(outcome, S_Age, {"greater_than_equal", "less_than_equal"})
             /\ RefusedByValidation

C11_Witness ==
    /\ lastOp = "POST /predict"
    /\ Supplied(features, S_Age) = Num(121)
    /\ HasError(outcome, S_Age, {"less_than_equal"})
    /\ response.status_code = 422

DocumentedDefaults ==
    << <<S_family, Str(S_yes)>>, <<S_FAVC, Str(S_yes)>>, <<S_FCVC, Num(2)>>,
       <<S_NCP, Num(3)>>, <<S_CAEC, Str(S_Sometimes)>>, <<S_SMOKE, Str(S_no)>>,
       <<S_CH2O, Num(2)>>, <<S_SCC, Str(S_no)>>, <<S_FAF, Num(1)>>,
       <<S_TUE, Num(1)>>, <<S_CALC, Str(S_Sometimes)>>,
       <<S_MTRANS, Str(S_Public_Transportation)>> >>

RequiredNames == {S_Gender, S_Age, S_Height, S_Weight}

\* the validated value is the supplied one: the same string, or the same number
SameValue(validated, supplied) ==
    IF supplied.t = "str" /\ validated.t = "str" THEN validated = supplied
    ELSE /\ ~NumLess(float_of(supplied).val, validated)
         /\ ~NumLess(validated, float_of(supplied).val)

\* C18: a body without an optional field is validated with the documented
\* default in its place, so a body of only gender, age, height and weight is
\* accepted with all twelve defaults; a supplied value is kept, never replaced
\* by a default; a body without gender, age, height or weight is refused with
\* a missing-field error, no value is put in its place.
C18_DefaultsOnlyForAbsentOptionals ==
    lastOp = "POST /predict" =>
        /\ \A name \in RequiredNames :
              ~IsSupplied(features, name) =>
                  /\ ~outcome.ok
                  /\ HasError(outcome, name, {"missing"})
                  /\ RefusedByValidation
        /\ outcome.ok =>
              /\ \A i \in 1..Len(DocumentedDefaults) :
                    ~IsSupplied(features, DocumentedDefaults[i][1]) =>
                        outcome.data[str_lower(DocumentedDefaults[i][1])]
                            = DocumentedDefaults[i][2]
              /\ \A name \in Fields :
                    IsSupplied(features, name) =>
                        SameValue(outcome.data[str_lower(name)],
                                  Supplied(features, name))
        /\ ( /\ \A name \in Fields :
                    IsSupplied(features, name) <=> name \in RequiredNames
             /\ \A name \in RequiredNames :
                    Supplied(features, name) = BaseValues[name] )
             => outcome.ok

C18_Witness ==
    /\ lastOp = "POST /predict"
    /\ \A name \in Fields : IsSupplied(features, name) <=> name \in RequiredNames
    /\ outcome.ok
    /\ \A i \in 1..Len(DocumentedDefaults) :
          outcome.data[str_lower(DocumentedDefaults[i][1])] = DocumentedDefaults[i][2]

\* a supplied value that differs from the field's default is kept
C18_SuppliedWitness ==
    /\ lastOp = "POST /predict"
    /\ outcome.ok
    /\ Supplied(features, S_MTRANS) = Str(S_Walking)
    /\ outcome.data[str_lower(S_MTRANS)] = Str(S_Walking)

-----------------------------------------------------------------------------
(* Properties of the results of predict *)

\* C13: a result returned by predict holds the water-intake recommendation
\* exactly when the daily water consumption found in the input, under
\* whichever key variant get_value accepts, is below 2.
C13_WaterRecommendation ==
    (lastOp = "predict" /\ outcome.kind = "return") =>
        (lifestyle_texts[2] \in Range(outcome.result.recommendations))
            <=> NumLess(float_of(get_value(features, S_CH2O)).val, Num(2))

\* C14: the risk level of a returned result is determined by the class label
\* alone: Normal_Weight Low, Overweight_Level_I and II Moderate,
\* Obesity_Type_I High, Obesity_Type_II Very High, Obesity_Type_III Extreme,
\* any other label (Insufficient_Weight, a stringified token) Unknown.
C14_RiskFromLabel ==
    (lastOp = "predict" /\ outcome.kind = "return") =>
        LET label == outcome.result.prediction
            risk  == outcome.result.risk_level
        IN  /\ label = S_Normal_Weight => risk = "Low"
            /\ label \in {S_Overweight_Level_I, S_Overweight_Level_II}
                  => risk = "Moderate"
            /\ label = S_Obesity_Type_I => risk = "High"
            /\ label = S_Obesity_Type_II => risk = "Very High"
            /\ label = S_Obesity_Type_III => risk = "Extreme"
            /\ label \notin {S_Normal_Weight, S_Overweight_Level_I,
                             S_Overweight_Level_II, S_Obesity_Type_I,
                             S_Obesity_Type_II, S_Obesity_Type_III}
                  => risk = "Unknown"

C14_Witness ==
    /\ lastOp = "predict"
    /\ outcome.kind = "return"
    /\ outcome.result.prediction = S_Insufficient_Weight
    /\ outcome.result.risk_level = "Unknown"

\* the BMI-band message for a BMI, 18.5, 25 and 30 counted in the upper band
BandMessage(bmi) ==
    IF NumLess(bmi, Ratio(185, 10))
    THEN "Your BMI indicates you are underweight. Consider consulting a nutritionist for a healthy weight gain plan."
    ELSE IF NumLess(bmi, Num(25))
    THEN "Your BMI is in the healthy range. Maintain your current healthy lifestyle!"
    ELSE IF NumLess(bmi, Num(30))
    THEN "Your BMI indicates you are overweight. Focus on balanced nutrition and regular exercise."
    ELSE "Your BMI indicates obesity. We recommend consulting a healthcare professional."

\* the four lifestyle rules on the values the input holds for the fields
RuleMatches(feats) ==
    << get_value(feats, S_FAVC).t = "str"
            /\ str_lower(get_value(feats, S_FAVC).s) = S_yes,
       NumLess(float_of(get_value(feats, S_CH2O)).val, Num(2)),
       NumLess(float_of(get_value(feats, S_FAF)).val, Num(1)),
       get_value(feats, S_CAEC).t = "str"
            /\ str_lower(get_value(feats, S_CAEC).s) = S_always >>

\* C15: the recommendations of a returned result are one BMI-band message
\* followed by the lifestyle messages in the order high-calorie food, water
\* intake, physical activity, snacking, each present exactly when its rule
\* matches the input's value for the field; so 1 to 5 entries.
C15_RecommendationList ==
    (lastOp = "predict" /\ outcome.kind = "return") =>
        LET h     == get_value(features, S_Height)
            w     == get_value(features, S_Weight)
            recs  == outcome.result.recommendations
            match == RuleMatches(features)
            tail  == SelectSeq(<<1, 2, 3, 4>>, LAMBDA i : match[i])
        IN  /\ Len(recs) \in 1..5
            /\ recs[1] = BandMessage(Ratio(w.n * 10000, h.n * h.n))
            /\ Len(recs) = 1 + Len(tail)
            /\ \A i \in 1..Len(tail) : recs[i + 1] = lifestyle_texts[tail[i]]

-----------------------------------------------------------------------------
(* Properties of predict over the kinds of artifact *)

\* C16: in a returned result confidence equals probability; with a classifier
\* that has predict_proba both are the largest entry of its probability
\* vector (0.8 for the stand-in's [0.2, 0.8]), without one both are 1.0; the
\* value lies in [0, 1].
C16_ConfidenceIsProbability ==
    (lastOp = "predict" /\ outcome.kind = "return") =>
        LET r == outcome.result
            m == predictor.model
        IN  /\ r.confidence = r.probability
            /\ m.has_predict_proba =>
                  r.probability = model_predict_proba_max(m,
                        preprocess_features(predictor, features).df)
            /\ m = DummyModel => r.probability = Ratio(8, 10)
            /\ ~m.has_predict_proba => r.probability = Num(1)
            /\ ~NumLess(r.probability, Num(0))
            /\ ~NumLess(Num(1), r.probability)

C16_Witness ==
    /\ lastOp = "predict"
    /\ outcome.kind = "return"
    /\ ~predictor.model.has_predict_proba
    /\ outcome.result.probability = Num(1)
    /\ outcome.result.confidence = Num(1)

\* the seven labels in the order LabelEncoder.classes_ holds them
SortedLabels ==
    <<S_Insufficient_Weight, S_Normal_Weight, S_Obesity_Type_I,
      S_Obesity_Type_II, S_Obesity_Type_III, S_Overweight_Level_I,
      S_Overweight_Level_II>>

\* C17: without a label decoder the predicted class of a returned result is
\* the classifier's token written as a string, and the risk level is looked up
\* on that string; with a decoder it is the decoder's class at that token.
C17_PredictedClass ==
    (lastOp = "predict" /\ outcome.kind = "return") =>
        LET r == outcome.result
            y == model_predict(predictor.model,
                    preprocess_features(predictor, features).df).val
        IN  /\ predictor.label_encoder = None =>
                  /\ Len(r.prediction) = 1
                  /\ r.prediction[1] = DigitChars[y + 1]
                  /\ r.risk_level = "Unknown"
            /\ predictor.label_encoder = LabelEncoder =>
                  r.prediction = SortedLabels[y + 1]
            /\ predictor.label_encoder = ShortLabelEncoder =>
                  (y = 0 /\ r.prediction = S_Normal_Weight)

C17_Witness ==
    /\ lastOp = "predict"
    /\ outcome.kind = "return"
    /\ predictor.model = DummyModel
    /\ predictor.label_encoder = None
    /\ outcome.result.prediction = <<"1">>
    /\ outcome.result.risk_level = "Unknown"

C17_DecoderWitness ==
    /\ lastOp = "predict"
    /\ outcome.kind = "return"
    /\ predictor.model = RandomForestClassifier
    /\ predictor.label_encoder = LabelEncoder
    /\ outcome.result.prediction \in
            {SortedLabels[i] : i \in 1..7} \ {S_Insufficient_Weight}

\* a step after preprocessing failed for a reason the input did not cause:
\* the frame has the wrong width, or predict, predict_proba or the label
\* decoder raised
ArtifactFailed(self, pre) ==
    /\ self.model # None
    /\ pre.exc = "none"
    /\ \/ Len(pre.df) # ExpectedFeatures
       \/ IsBroken(self.model, "predict")
       \/ IsBroken(self.model, "predict_proba")
       \/ /\ self.label_encoder # None
          /\ self.model.cls # "BrokenClassifier"
          /\ inverse_transform(self.label_encoder,
                               model_predict(self.model, pre.df).val).exc # "none"

\* C19: when the frame has the wrong width, or the classifier's predict or
\* predict_proba or the label decoder raises, whatever the exception's type,
\* predict fails with a server error (5xx), never with a client error (4xx).
C19_ArtifactFailureIsServerError ==
    (/\ lastOp = "predict"
     /\ ArtifactFailed(predictor, preprocess_features(predictor, features))) =>
        /\ outcome.kind = "raise"
        /\ outcome.status_code \in 500..599

\* a failure of the artifacts that predict does report as a server error
C19_ServerErrorWitness ==
    /\ lastOp = "predict"
    /\ IsBroken(predictor.model, "predict")
    /\ predictor.model.exc = "RuntimeError"
    /\ outcome.kind = "raise"
    /\ outcome.status_code = 500

-----------------------------------------------------------------------------
(* Properties of _load_model_assets *)

\* every file of the location is there and loads
Loadable(disk, desc) ==
    \A i \in 1..Len(FileKinds) : disk[desc][FileKinds[i]] = "ok"

\* the three components as loaded from one location
TripleFrom(desc) ==
    [model |-> Loaded(desc, "model"), feature_encoder |-> Loaded(desc, "feature"),
     label_encoder |-> Loaded(desc, "label")]

\* C20: after _load_model_assets returned, model, feature_encoder and
\* label_encoder are the three objects of one location, the first of app/ml
\* and the repository root whose three files all load, or all three None when
\* neither location loads; a location that is incomplete or fails part-way
\* leaves nothing of itself behind.
C20_AllOrNothing ==
    lastOp = "_load_model_assets" =>
        IF Loadable(files, candidates[1]) THEN predictor = TripleFrom(candidates[1])
        ELSE IF Loadable(files, candidates[2]) THEN predictor = TripleFrom(candidates[2])
        ELSE predictor = FreshPredictor

\* app/ml failed after its model file was loaded, and nothing of it is left
C20_Witness ==
    /\ lastOp = "_load_model_assets"
    /\ files[candidates[1]]["model"] = "ok"
    /\ files[candidates[1]]["feature"] = "ok"
    /\ files[candidates[1]]["label"] = "truncated"
    /\ ~Loadable(files, candidates[2])
    /\ predictor = FreshPredictor

\* app/ml failed part-way and the repository root supplied all three
C20_FallbackWitness ==
    /\ lastOp = "_load_model_assets"
    /\ files[candidates[1]]["model"] = "ok"
    /\ files[candidates[1]]["feature"] = "unreadable"
    /\ predictor = TripleFrom(candidates[2])

-----------------------------------------------------------------------------
(* Properties of the prediction rows *)

\* the row make_prediction saves for the request and the result it answers with
SavedRow(req, result, now) ==
    [user_id     |-> req.user,
     prediction  |-> result.prediction,
     probability |-> result.probability,
     bmi         |-> result.bmi,
     risk_level  |-> result.risk_level,
     input_data  |-> req.input_data,
     created_at  |-> now]

\* C25: a POST /predict answered with 200 has added exactly one row to the
\* predictions table, owned by the requesting user and holding the answered
\* prediction, probability, bmi and risk level and the submitted input; when
\* the predictor's predict raises, the answer is 500 and no row is added.
C25_RowSavedBeforeOk ==
    [][request'.op = "predict" =>
          /\ response'.status_code = 200 =>
                \E now \in Times :
                    predictions' = Append(predictions,
                                          SavedRow(request', response'.result, now))
          /\ ( /\ routerModel' # None
               /\ wrapper_predict(routerModel', request'.input_data).kind = "raise" )
                => /\ response'.status_code = 500
                   /\ predictions' = predictions]_vars

C25_Witness ==
    /\ request.op = "predict"
    /\ response.status_code = 200
    /\ Len(predictions) = 2
    /\ predictions[2] = SavedRow(request, response.result, predictions[2].created_at)
    /\ predictions[1].user_id # request.user

\* predict raised and the request was answered with 500, no row saved
C25_RaiseWitness ==
    /\ request.op = "predict"
    /\ routerModel # None
    /\ wrapper_predict(routerModel, request.input_data).kind = "raise"
    /\ response.status_code = 500
    /\ predictions = <<>>

-----------------------------------------------------------------------------
(* Properties of the accounts *)

AdminHandlers == {"delete_user", "toggle_user_status", "toggle_admin_status"}

\* the table with exactly the one change the operation makes to row user_id
one_change(op, table, user_id) ==
    CASE op = "delete_user"         -> [table EXCEPT ![user_id] = NoUser]
      [] op = "toggle_user_status"  ->
            [table EXCEPT ![user_id].is_active = ~table[user_id].is_active]
      [] op = "toggle_admin_status" ->
            [table EXCEPT ![user_id].is_admin = ~table[user_id].is_admin]

\* C21: delete_user, toggle_user_status and toggle_admin_status called with
\* the administrator's own id answer 400 and change nothing; called with
\* another existing id they delete that row, or flip that one flag of that
\* row, and nothing else; called with an id that is not in the table they
\* answer 404 and change nothing.
C21_AdminSelfProtection ==
    [][ lastOp' \in AdminHandlers =>
          \E target \in {first_by_id(users, response'.user_id)} :
            /\ response'.op = lastOp'
            /\ target = NoUser =>
                 /\ response'.status_code = 404
                 /\ users' = users
            /\ (target # NoUser /\ response'.user_id = response'.user) =>
                 /\ response'.status_code = 400
                 /\ users' = users
            /\ (target # NoUser /\ response'.user_id # response'.user) =>
                 /\ response'.status_code = 200
                 /\ users' = one_change(lastOp', users, response'.user_id) ]_vars

\* an administrator asked for the deletion of their own account and was
\* refused, the account still there
C21_Witness ==
    /\ lastOp = "delete_user"
    /\ response.status_code = 400
    /\ response.user_id = response.user
    /\ first_by_id(users, response.user) # NoUser

\* an administrator took the admin flag from another administrator
C21_OtherWitness ==
    /\ lastOp = "toggle_admin_status"
    /\ response.status_code = 200
    /\ response.user_id # response.user
    /\ ~first_by_id(users, response.user_id).is_admin

\* no two rows of the table share an email or a username
UniqueUsers(table) ==
    \A r1 \in Rows(table), r2 \in Rows(table) :
        r1.id # r2.id => (r1.email # r2.email /\ r1.username # r2.username)

\* the request that took the step: the one that left the waiting requests
StepOf(before, after, op, stage) ==
    {e \in before \ after : e.op = op /\ e.stage = stage}

\* C22: whatever the sequence and the interleaving of register and
\* update_user requests, no two users share an email and no two users share
\* a username. register answers 400 'Email already registered' when the email
\* is in the table, otherwise 400 'Username already registered' when the
\* username is, and creates nothing; update_user answers 400 when the new
\* email is the email of another user and leaves its target as it was.
C22_UniqueEmailAndUsername ==
    [][ /\ UniqueUsers(users) /\ UniqueUsers(users')
        /\ (lastOp' = "register" /\ started' # started) =>
             /\ first_by_email(users, response'.email) # NoUser =>
                  /\ response'.status_code = 400
                  /\ response'.detail = "Email already registered"
                  /\ users' = users /\ inflight' = inflight
             /\ (/\ first_by_email(users, response'.email) = NoUser
                 /\ first_by_username(users, response'.username) # NoUser) =>
                  /\ response'.status_code = 400
                  /\ response'.detail = "Username already registered"
                  /\ users' = users /\ inflight' = inflight
        /\ \A entry \in StepOf(inflight, inflight', "update_user", "authorised") :
             (\E row \in Rows(users) : /\ row.id # entry.user_id
                                       /\ row.email = entry.email
                                       /\ first_by_id(users, entry.user_id) # NoUser) =>
                  /\ response'.status_code = 400
                  /\ users' = users
                  /\ inflight' = inflight \ {entry} ]_vars

\* update_user was refused the email of another user
C22_Witness ==
    /\ lastOp = "update_user"
    /\ response.status_code = 400
    /\ \E row \in Rows(users) : row.email = response.email /\ row.id # response.user_id
    /\ first_by_id(users, response.user_id) # NoUser

\* two requests raced for one email: the one that came second to its commit
\* was stopped by the unique constraint
C22_RaceWitness ==
    /\ lastOp \in {"register", "update_user"}
    /\ response.status_code = 500
    /\ \E row \in Rows(users) : row.email = response.email /\ row.id # response.user_id
    /\ UniqueUsers(users)

\* register was refused a username that is taken, the email being free
C22_UsernameWitness ==
    /\ lastOp = "register"
    /\ response.status_code = 400
    /\ response.detail = "Username already registered"
    /\ first_by_email(users, response.email) = NoUser

\* C23: login with an email that is not in the table and login with a wrong
\* password get the same answer, 401 'Incorrect email or password'; an
\* inactive user with the right password gets 400 'Inactive user'; the checks
\* run in that order; a token is created only when all three pass, and its
\* subject is the user's email.
C23_LoginOrder ==
    [][ lastOp' = "login" =>
          \E row \in {first_by_email(users, response'.email)} :
            /\ response'.op = "login" /\ users' = users
            /\ row = NoUser =>
                 /\ response'.status_code = 401
                 /\ response'.detail = "Incorrect email or password"
            /\ (row # NoUser /\ ~verify_password(response'.password, row.hashed_password)) =>
                 /\ response'.status_code = 401
                 /\ response'.detail = "Incorrect email or password"
            /\ (/\ row # NoUser
                /\ verify_password(response'.password, row.hashed_password)
                /\ ~row.is_active) =>
                 /\ response'.status_code = 400
                 /\ response'.detail = "Inactive user"
            /\ (/\ row # NoUser
                /\ verify_password(response'.password, row.hashed_password)
                /\ row.is_active) =>
                 /\ response'.status_code = 200
                 /\ response'.token = create_access_token([sub |-> row.email])
                 /\ response'.user = row.id
                 /\ issued' = issued \cup {IssuedTo(row)}
            /\ response'.status_code # 200 =>
                 /\ response'.token = NoToken
                 /\ issued' = issued ]_vars

\* a deactivated user logged in with the right password and got 400
C23_Witness ==
    /\ lastOp = "login"
    /\ response.status_code = 400
    /\ response.detail = "Inactive user"
    /\ \E row \in Rows(users) :
        /\ row.email = response.email /\ ~row.is_active
        /\ verify_password(response.password, row.hashed_password)
    /\ response.token = NoToken

\* a deactivated user logged in with a wrong password and got 401, as for an
\* unknown email
C23_WrongPasswordWitness ==
    /\ lastOp = "login"
    /\ response.status_code = 401
    /\ \E row \in Rows(users) :
        /\ row.email = response.email /\ ~row.is_active
        /\ ~verify_password(response.password, row.hashed_password)

\* login with an email that is not in the table
C23_UnknownEmailWitness ==
    /\ lastOp = "login"
    /\ response.status_code = 401
    /\ first_by_email(users, response.email) = NoUser

\* the status the dependencies of a protected endpoint answer a token with,
\* 200 when they let the request through: the token verifies and has a
\* subject, else 401; a user has that email, else 401; the user is active,
\* else 400; and, for an admin endpoint, the user is an admin, else 403
checks_in_order(token, table, admin_only) ==
    IF ~token.signed \/ token.sub = NoEmail THEN 401
    ELSE IF \A row \in Rows(table) : row.email # token.sub THEN 401
    ELSE IF \E row \in Rows(table) : row.email = token.sub /\ ~row.is_active THEN 400
    ELSE IF admin_only /\ \E row \in Rows(table) : row.email = token.sub /\ ~row.is_admin
    THEN 403
    ELSE 200

\* C24: a protected endpoint runs its checks in this order: the token
\* verifies and carries a subject, else 401; a user with that email exists,
\* else 401; the user is active, else 400; for an admin endpoint the user is
\* an admin, else 403. A request that fails a check goes no further, and
\* every admin handler that runs was let through for a requester who was an
\* active admin when checked.
C24_ChecksInOrder ==
    [][ /\ lastOp' \in {"read_users_me", "get_current_user"} =>
             \E status \in {checks_in_order(response'.token, users, FALSE)} :
                /\ response'.status_code = status
                /\ status = 200 =>
                     first_by_email(users, response'.token.sub).id = response'.user
                /\ users' = users /\ inflight' = inflight
        /\ lastOp' = "get_current_admin_user" =>
             \E status \in {checks_in_order(response'.token, users, TRUE)} :
                /\ response'.op \in AdminOps
                /\ users' = users
                /\ status # 200 =>
                     /\ response'.status_code = status
                     /\ inflight' = inflight
                /\ status = 200 =>
                     /\ response'.status_code = 0
                     /\ \E entry \in inflight' :
                          /\ entry.op = response'.op /\ entry.stage = "authorised"
                          /\ entry.token = response'.token
                          /\ entry.current_user =
                                first_by_email(users, response'.token.sub)
                          /\ inflight' = inflight \cup {entry}
        /\ \A entry \in inflight' :
             entry.op \in AdminOps =>
                /\ entry.current_user # NoUser
                /\ entry.current_user.is_admin /\ entry.current_user.is_active
        /\ lastOp' \in AdminHandlers \cup {"update_user"} =>
             \E entry \in inflight \ inflight' :
                /\ entry.op = lastOp'
                /\ entry.current_user.id = response'.user
                /\ entry.current_user.is_admin /\ entry.current_user.is_active
        /\ users' # users =>
             lastOp' \in AdminHandlers \cup {"update_user", "register"} ]_vars

\* an active user who is not an admin called an admin endpoint and got 403
C24_Witness ==
    /\ lastOp = "get_current_admin_user"
    /\ response.status_code = 403
    /\ \E row \in Rows(users) :
        row.email = response.token.sub /\ row.is_active /\ ~row.is_admin
    /\ response.token.signed

\* a deactivated admin called an admin endpoint and got 400, not 403
C24_InactiveWitness ==
    /\ lastOp = "get_current_admin_user"
    /\ response.status_code = 400
    /\ \E row \in Rows(users) : row.email = response.token.sub /\ ~row.is_active
    /\ response.token.signed

\* the token of a deleted user, and a token that does not verify, got 401
C24_DeletedWitness ==
    /\ lastOp = "read_users_me"
    /\ response.status_code = 401
    /\ response.token.signed /\ response.token.sub # NoEmail

C24_ForgedWitness ==
    /\ lastOp = "get_current_admin_user"
    /\ response.status_code = 401
    /\ ~response.token.signed

-----------------------------------------------------------------------------
(* Properties of GET /history *)

\* the rows are `limit` or fewer of the rows at `positions`, each taken once,
\* newest first, and no row left out is newer than a row taken
NewestFirst(table, positions, rows, limit) ==
    /\ Len(rows) <= limit
    /\ Len(rows) = limit \/ Len(rows) = Cardinality(positions)
    /\ \A j, k \in DOMAIN rows : j < k => rows[j].created_at >= rows[k].created_at
    /\ \E taken \in SUBSET positions :
        /\ Cardinality(taken) = Len(rows)
        /\ \E s \in [DOMAIN rows -> taken] :
            /\ \A j, k \in DOMAIN rows : j # k => s[j] # s[k]
            /\ \A j \in DOMAIN rows : rows[j] = table[s[j]]
        /\ \A i \in positions \ taken, j \in DOMAIN rows :
            table[i].created_at <= rows[j].created_at

\* C26: GET /history answers with rows of the requesting user only, newest
\* first and at most `limit` of them, the newest ones; with a limit below 1
\* or above 50 it answers 422 and the predictions are not queried.
C26_OwnRowsNewestFirst ==
    request.op = "history" =>
        \E limit \in {request.input_data[1]} :
            /\ (limit < 1 \/ limit > 50) =>
                 /\ response.status_code = 422
                 /\ ~response.queried
                 /\ response.history = <<>>
            /\ (limit >= 1 /\ limit <= 50) =>
                 /\ response.status_code = 200
                 /\ \A j \in DOMAIN response.history :
                        response.history[j].user_id = request.user
                 /\ NewestFirst(predictions, rows_of(predictions, request.user),
                                response.history, limit)

\* the user has two rows, the later one saved with the earlier timestamp, and
\* asked for one: the answer is the row saved first
C26_Witness ==
    /\ request.op = "history"
    /\ request.input_data = <<1>>
    /\ Len(predictions) = 2
    /\ predictions[1].user_id = request.user
    /\ predictions[2].user_id = request.user
    /\ predictions[1].created_at > predictions[2].created_at
    /\ response.status_code = 200
    /\ response.history = <<predictions[1]>>

\* the table holds a row of another user, which is not in the answer
C26_OtherUserWitness ==
    /\ request.op = "history"
    /\ response.status_code = 200
    /\ Len(predictions) = 2
    /\ predictions[1].user_id # request.user
    /\ predictions[2].user_id = request.user
    /\ response.history = <<predictions[2]>>

\* a limit of 51 was answered 422 while the user had rows
C26_LimitWitness ==
    /\ request.op = "history"
    /\ request.input_data = <<51>>
    /\ response.status_code = 422
    /\ rows_of(predictions, request.user) # {}

-----------------------------------------------------------------------------
(* Properties of the accounts under interleaved requests *)

\* C27: whatever the interleaving of delete_user, toggle_user_status and
\* toggle_admin_status requests by several administrators, the steps of one
\* request apart, the table always holds a user who is active and an admin.
C27_AnActiveAdminRemains ==
    \E row \in Rows(users) : row.is_admin /\ row.is_active

\* C28: a token issued to a user authenticates as that user or is rejected,
\* whatever register, update_user (a change of email) and delete_user did to
\* the table since it was issued: the user a protected request runs as is
\* the user its token was issued to.
C28_TokenKeepsItsUser ==
    /\ ( /\ lastOp \in {"read_users_me", "get_current_user"}
         /\ response.status_code = 200 /\ response.holder # 0 )
            => response.user = response.holder
    /\ \A entry \in inflight :
            (entry.op \in AdminOps /\ entry.holder # 0)
                => entry.current_user.id = entry.holder

\* the row's flags were changed, or the row was deleted
FlagsOrRowChanged(before, after) ==
    /\ before # NoUser
    /\ \/ after = NoUser
       \/ after.is_admin # before.is_admin
       \/ after.is_active # before.is_active

\* C29: register, login, GET /me, the dependency of predict and history and
\* the dependencies of an admin endpoint, which are all a request of a user
\* who is not an admin does in the users table, change no
\* user's is_admin or is_active and delete no user: a flag changes and a user
\* is deleted only in an admin handler let through for an active admin. Every
\* account that registration creates has is_admin False.
C29_OnlyAdminsChangeFlags ==
    [][ /\ \A i \in 1..Len(users) :
             FlagsOrRowChanged(users[i], users'[i]) =>
                /\ lastOp' \in AdminHandlers
                /\ response'.status_code = 200
                /\ \E entry \in inflight \ inflight' :
                     /\ entry.op = lastOp' /\ entry.user_id = i
                     /\ entry.current_user.is_admin /\ entry.current_user.is_active
        /\ lastOp' \in {"register", "login", "read_users_me", "get_current_user",
                       "get_current_admin_user"} =>
             \A i \in 1..Len(users) : users'[i] = users[i]
        /\ Len(users') >= Len(users)
        /\ Len(users') > Len(users) =>
             /\ lastOp' = "register" /\ response'.status_code = 201
             /\ users' = Append(users, users'[Len(users')])
             /\ ~users'[Len(users')].is_admin ]_vars

\* registration created an account, which is not an admin's
C29_Witness ==
    /\ lastOp = "register"
    /\ response.status_code = 201
    /\ Len(users) = response.user
    /\ ~users[response.user].is_admin
    /\ users[response.user].is_active

\* a user who is not an admin asked for their own promotion and was rejected,
\* their row as it was
C29_RejectedWitness ==
    /\ lastOp = "get_current_admin_user"
    /\ response.op = "toggle_admin_status"
    /\ response.status_code = 403
    /\ \E row \in Rows(users) :
        /\ row.email = response.token.sub /\ row.id = response.user_id
        /\ ~row.is_admin

\* the row is there and is_active is False on it
Deactivated(row) == row # NoUser /\ ~row.is_active

\* C30: while is_active is False on a user's row, which is from the
\* toggle_user_status that set it to the one that sets it back, every request
\* to a protected endpoint with that user's token is answered 400 and goes no
\* further, a token issued before the deactivation included, and every login
\* with that user's email is rejected and creates no token.
C30_DeactivationIsImmediate ==
    [][ /\ ( /\ lastOp' \in {"read_users_me", "get_current_user",
                             "get_current_admin_user"}
             /\ response'.token.signed
             /\ Deactivated(first_by_email(users, response'.token.sub)) ) =>
                /\ response'.status_code = 400
                /\ response'.detail = "Inactive user"
                /\ inflight' = inflight /\ users' = users
        /\ ( /\ lastOp' = "login"
             /\ Deactivated(first_by_email(users, response'.email)) ) =>
                /\ response'.status_code \in {400, 401}
                /\ response'.token = NoToken
                /\ issued' = issued /\ users' = users ]_vars

\* a user who was deactivated sent the token they were issued before to an
\* endpoint that depends on get_current_user, and got 400
C30_Witness ==
    /\ lastOp = "get_current_user"
    /\ response.status_code = 400
    /\ response.holder # 0
    /\ Deactivated(first_by_id(users, response.holder))
    /\ first_by_id(users, response.holder).email = response.token.sub

\* a user who was deactivated tried to log in with the right password
C30_LoginWitness ==
    /\ lastOp = "login"
    /\ response.status_code = 400
    /\ Deactivated(first_by_email(users, response.email))
    /\ response.password = "pw"

\* a user who was deactivated and reactivated used the token issued before
C30_ReactivatedWitness ==
    /\ lastOp = "get_current_user"
    /\ started = 3
    /\ response.status_code = 200
    /\ response.holder = 2 /\ response.user = 2
    /\ first_by_id(users, 2).is_active

====
